---------------------------- MODULE Spec2Model ----------------------------
(***************************************************************************)
(* Model of the PhiBlock-API compliance core.                              *)
(*                                                                         *)
(*   - app/audit_ledger.py : the hash-chained, optionally signed ledger    *)
(*   - app/compliance/engine.py : rule loading and evaluation              *)
(*   - app/compliance/redaction.py : span merging and redaction            *)
(*   - app/main.py : the /v1/analyze request handler                       *)
(*                                                                         *)
(* SHA-256 and HMAC-SHA256 are modelled as collision-free constructors     *)
(* (a digest is the term it was computed from), the usual symbolic         *)
(* idealisation.  A JSON text is modelled by its abstract syntax: an       *)
(* object is the ordered list of its members, in which (as in the text)    *)
(* a member name may occur twice.  A text is the sequence of its           *)
(* characters; a regular expression is modelled by a literal.              *)
(***************************************************************************)
EXTENDS Integers, Sequences, FiniteSets, TLC

VARIABLES
    file,       \* the ledger file: the sequence of its lines (JSON records)
    key,        \* AuditLedger.key ("" when no signing key is configured)
    clock,      \* the wall clock read by datetime.now
    appended,   \* <<r>> for the LedgerRecord r the last append returned, else <<>>
    verified,   \* result of the last verify() on the current file: "none" before one
    tamper,     \* what was done to the file from outside the ledger API
    emitted,    \* the warnings and log events app/audit_ledger.py has emitted
    wpc,        \* per writer: position inside append
    wlast,      \* per writer: the chain tail read at lines 104-106
    wpayload,   \* per writer: the payload argument of the running append
    engineRules,        \* ComplianceEngine.rules: framework -> list of rules
    engineFrameworks,   \* ComplianceEngine.frameworks
    lastLoad,   \* the rule list the last load_rules call was given
    result,     \* <<r>> for the ComplianceResult the last check_compliance returned
    req,        \* the /v1/analyze request in progress: position and locals
    cache,      \* the analysis result cached for a prompt, <<>> when none
    args,       \* the call of a function in progress: its name and arguments
    out,        \* <<v>> for the value v that call returned
    fallbackCounters,   \* rate_limiting._fallback_counters: key -> <<minute, count>>
    fallbackLock,       \* the request holding rate_limiting._fallback_lock, or "none"
    limiter,    \* per request of the rate limiter: its position and locals
    rateLimit,  \* the rate limit of the API key
    redisStore, \* the keys of the Redis server: key -> value
    hook,       \* the send_webhook call in progress: position, attempts, responses
    reload      \* the load_rules call in progress on the shared engine

ledgerVars == <<file, key, clock, appended, verified, tamper, emitted>>
writerVars == <<wpc, wlast, wpayload>>
pipelineVars == <<engineRules, engineFrameworks, lastLoad, result, req, cache>>
callVars == <<args, out>>
limiterVars == <<fallbackCounters, fallbackLock, limiter, rateLimit, redisStore>>
sideVars == <<limiterVars, hook, reload>>
auxVars == <<callVars, sideVars>>
vars == <<file, key, clock, appended, verified, tamper, emitted, wpc, wlast, wpayload,
          engineRules, engineFrameworks, lastLoad, result, req, cache, args, out,
          fallbackCounters, fallbackLock, limiter, rateLimit, redisStore, hook, reload>>

-----------------------------------------------------------------------------
(* Bounds *)

MaxRecords == 3
MaxClock == 1

-----------------------------------------------------------------------------
(* JSON: json.dumps / json.loads on the payloads the ledger is given *)

\* A Python dict key: json.dumps accepts str and int keys.
StrKey(s) == [kt |-> "str", ks |-> s]
IntKey(s) == [kt |-> "int", ks |-> s]

\* A Python value of a payload entry: a string, or a dict of strings.
PyAtom(a) == [t |-> "atom", a |-> a, items |-> <<>>]
PyDict(items) == [t |-> "dict", a |-> "", items |-> items]
Item(k, v) == [key |-> k, val |-> v]

\* The payloads handed to append (payload: Dict[str, Any]).
Payloads ==
    { <<Item("event", PyAtom("one"))>>,
      <<Item("counts", PyDict(<<Item(IntKey("1"), "x")>>))>>,
      <<Item("counts", PyDict(<<Item(IntKey("1"), "x"), Item(StrKey("1"), "y")>>))>> }

\* json.dumps of a dict key: an int key is written as its decimal string.
KeyToJson(k) == k.ks

Member(n, v) == [name |-> n, val |-> v]
JAtom(a) == [t |-> "atom", a |-> a, members |-> <<>>]
JObject(members) == [t |-> "object", a |-> "", members |-> members]

\* json.dumps of one payload value
DumpsValue(v) ==
    IF v.t = "dict"
    THEN JObject([i \in 1..Len(v.items) |->
                    Member(KeyToJson(v.items[i].key), v.items[i].val)])
    ELSE JAtom(v.a)

\* json.dumps(payload, separators=(",", ":")): members in insertion order
Dumps(payload) ==
    [i \in 1..Len(payload) |-> Member(payload[i].key, DumpsValue(payload[i].val))]

\* json.loads of an object: a repeated name keeps its first position and its
\* last value (a Python dict).
DedupeMembers(ms) ==
    LET first(i) == \A j \in 1..(i - 1) : ms[j].name # ms[i].name
        idx == SelectSeq([i \in 1..Len(ms) |-> i], first)
        lastOf(n) == CHOOSE i \in 1..Len(ms) :
                        /\ ms[i].name = n
                        /\ \A j \in (i + 1)..Len(ms) : ms[j].name # n
    IN  [k \in 1..Len(idx) |-> Member(ms[idx[k]].name, ms[lastOf(ms[idx[k]].name)].val)]

LoadsValue(j) ==
    IF j.t = "object"
    THEN LET ms == DedupeMembers(j.members)
         IN  PyDict([i \in 1..Len(ms) |-> Item(StrKey(ms[i].name), ms[i].val)])
    ELSE PyAtom(j.a)

Loads(text) ==
    LET ms == DedupeMembers(text)
    IN  [i \in 1..Len(ms) |-> Item(ms[i].name, LoadsValue(ms[i].val))]

-----------------------------------------------------------------------------
(* Digests *)

Null == <<>>

\* the canonical body {index, timestamp, payload, prev_hash} as JSON text
Body(index, timestamp, payload, prev_hash) ==
    [index |-> index, timestamp |-> timestamp,
     payload |-> Dumps(payload), prev_hash |-> prev_hash]

Sha256Hex(data) == <<data>>

HmacSign(k, message) == <<k, message>>

-----------------------------------------------------------------------------
(* Records *)

\* LedgerRecord.to_json: one line of the file
ToJson(rec) ==
    [index |-> rec.index, timestamp |-> rec.timestamp, payload |-> Dumps(rec.payload),
     prev_hash |-> rec.prev_hash, hash |-> rec.hash, signature |-> rec.signature]

\* _iter_records: the LedgerRecord parsed from one line
ParseLine(line) ==
    [index |-> line.index, timestamp |-> line.timestamp, payload |-> Loads(line.payload),
     prev_hash |-> line.prev_hash, hash |-> line.hash, signature |-> line.signature]

IterRecords(f) == [i \in 1..Len(f) |-> ParseLine(f[i])]

\* append, lines 104-106: the last record of the file, <<>> when there is none
ReadTail(f) == IF Len(f) = 0 THEN <<>> ELSE <<IterRecords(f)[Len(f)]>>

\* BuildRecord that numbers the new record like the tail it read
BuildRecordSameIndex(last, payload, timestamp, k) ==
    LET index == IF last # <<>> THEN last[1].index ELSE 0
        prev_hash == IF last # <<>> THEN last[1].hash ELSE Null
        body == Body(index, timestamp, payload, prev_hash)
    IN  [index |-> index, timestamp |-> timestamp, payload |-> payload,
         prev_hash |-> prev_hash, hash |-> Sha256Hex(body),
         signature |-> IF k # "" THEN HmacSign(k, body) ELSE Null]

\* append, lines 108-135: the record built on the tail that was read
BuildRecord(last, payload, timestamp, k) ==
    LET index == IF last # <<>> THEN last[1].index + 1 ELSE 0
        prev_hash == IF last # <<>> THEN last[1].hash ELSE Null
        body == Body(index, timestamp, payload, prev_hash)
    IN  [index |-> index, timestamp |-> timestamp, payload |-> payload,
         prev_hash |-> prev_hash, hash |-> Sha256Hex(body),
         signature |-> IF k # "" THEN HmacSign(k, body) ELSE Null]

\* RecordOk without the comparison of the recomputed hash (lines 161-163)
RecordOkNoHash(rec, expected_prev, k) ==
    LET body == Body(rec.index, rec.timestamp, rec.payload, rec.prev_hash)
    IN  /\ rec.prev_hash = expected_prev
        /\ k # "" => /\ rec.signature # Null
                     /\ HmacSign(k, body) = rec.signature

\* RecordOk without the comparison of prev_hash to the previous hash (lines 165-166)
RecordOkNoChain(rec, expected_prev, k) ==
    LET body == Body(rec.index, rec.timestamp, rec.payload, rec.prev_hash)
    IN  /\ Sha256Hex(body) = rec.hash
        /\ k # "" => /\ rec.signature # Null
                     /\ HmacSign(k, body) = rec.signature

\* RecordOk without the signature checks (lines 168-172)
RecordOkNoSignature(rec, expected_prev, k) ==
    LET body == Body(rec.index, rec.timestamp, rec.payload, rec.prev_hash)
    IN  /\ Sha256Hex(body) = rec.hash
        /\ rec.prev_hash = expected_prev

\* verify, lines 150-174: the checks of one record
RecordOk(rec, expected_prev, k) ==
    LET body == Body(rec.index, rec.timestamp, rec.payload, rec.prev_hash)
    IN  /\ Sha256Hex(body) = rec.hash
        /\ rec.prev_hash = expected_prev
        /\ k # "" => /\ rec.signature # Null
                     /\ HmacSign(k, body) = rec.signature

RECURSIVE VerifyFrom(_, _, _, _)
VerifyFrom(recs, i, expected_prev, k) ==
    IF i > Len(recs) THEN TRUE
    ELSE IF ~RecordOk(recs[i], expected_prev, k) THEN FALSE
    ELSE VerifyFrom(recs, i + 1, recs[i].hash, k)

\* verify() that does not accept a file without records
VerifyNonEmpty(f, k) == f # <<>> /\ VerifyFrom(IterRecords(f), 1, Null, k)

\* verify()
Verify(f, k) == VerifyFrom(IterRecords(f), 1, Null, k)

-----------------------------------------------------------------------------
(* The ledger used by one caller at a time *)

NoTamper == [kind |-> "none", pos |-> 0, field |-> "", valid |-> FALSE, n |-> 0]

LedgerKeys == {"", "ledger-key"}

WritersIdle ==
    /\ wpc = <<>>
    /\ wlast = <<>>
    /\ wpayload = <<>>

\* AuditLedger(path) on a new file: __init__ reads the key and creates the
\* file; neither it nor _get_ledger_key emits anything
LedgerInit ==
    /\ file = <<>>
    /\ key \in LedgerKeys
    /\ clock = 0
    /\ appended = <<>>
    /\ verified = "none"
    /\ tamper = NoTamper
    /\ emitted = <<>>

\* no function call in progress
CallsIdle ==
    /\ args = <<>>
    /\ out = <<>>

\* no request at the rate limiter
LimiterIdle ==
    /\ fallbackCounters = <<>>
    /\ fallbackLock = "none"
    /\ limiter = <<>>
    /\ rateLimit = 0
    /\ redisStore = <<>>

\* no webhook being sent, no reload running
SideIdle ==
    /\ LimiterIdle
    /\ hook = [pc |-> "idle"]
    /\ reload = [pc |-> "idle"]

AuxIdle == CallsIdle /\ SideIdle

PipelineIdle ==
    /\ engineRules = <<>>
    /\ engineFrameworks = <<>>
    /\ lastLoad = <<>>
    /\ result = <<>>
    /\ req = [pc |-> "idle"]
    /\ cache = <<>>

Init ==
    /\ LedgerInit
    /\ WritersIdle
    /\ PipelineIdle
    /\ AuxIdle

\* datetime.now(timezone.utc): the clock does not go back between two calls
Now == {t \in clock..(clock + 1) : t <= MaxClock}

\* append(payload), called with no other call in progress
AppendCall(payload) ==
    /\ tamper.kind = "none"
    /\ Len(file) < MaxRecords
    /\ \E t \in Now :
        LET rec == BuildRecord(ReadTail(file), payload, t, key)
        IN  /\ file' = Append(file, ToJson(rec))
            /\ appended' = <<rec>>
            /\ clock' = t
    /\ verified' = "none"
    /\ UNCHANGED <<emitted, key, tamper, writerVars, pipelineVars, auxVars>>

\* verify()
VerifyCall ==
    /\ verified = "none"
    /\ verified' = IF Verify(file, key) THEN "true" ELSE "false"
    /\ UNCHANGED <<emitted, file, key, clock, appended, tamper, writerVars, pipelineVars, auxVars>>

-----------------------------------------------------------------------------
(* Changes made to the file from outside the ledger API.  Each acts once,  *)
(* on a file the ledger wrote and has verified; tamper records what was    *)
(* done and whether verify() accepted the file before.                     *)

Tampered(kind, pos, field) ==
    [kind |-> kind, pos |-> pos, field |-> field,
     valid |-> (verified = "true"), n |-> Len(file)]

CanTamper ==
    /\ tamper.kind = "none"
    /\ verified # "none"
    /\ Len(file) >= 1

\* the body verify() recomputes for a line of the file
LineBody(line) ==
    Body(line.index, line.timestamp, Loads(line.payload), line.prev_hash)

AttackerKey == "attacker-key"

BogusHash == Sha256Hex(Body(0 - 1, 0, <<>>, Null))

\* digests an editor of the file can write into a hash or prev_hash field
HashValues(f) ==
    {Null, BogusHash} \cup {f[j].hash : j \in 1..Len(f)}
                      \cup {f[j].prev_hash : j \in 1..Len(f)}

\* values an editor of the file can write into a signature field
SignatureValues(f, i) ==
    {Null, HmacSign(AttackerKey, LineBody(f[i]))}
        \cup {f[j].signature : j \in 1..Len(f)}

FieldValues(f, i, field) ==
    CASE field = "payload" ->
            {Dumps(p) : p \in Payloads} \ {t \in {Dumps(p) : p \in Payloads} :
                                              Loads(t) = Loads(f[i].payload)}
      [] field = "prev_hash" -> HashValues(f) \ {f[i].prev_hash}
      [] field = "hash" -> HashValues(f) \ {f[i].hash}
      [] field = "signature" -> SignatureValues(f, i) \ {f[i].signature}

MutableFields == {"payload", "prev_hash", "hash", "signature"}

\* one field of one persisted record gets another value
MutateField(i, field) ==
    /\ CanTamper
    /\ \E v \in FieldValues(file, i, field) :
          file' = [file EXCEPT ![i] = [file[i] EXCEPT ![field] = v]]
    /\ tamper' = Tampered("mutate", i, field)
    /\ verified' = "none"
    /\ appended' = <<>>
    /\ UNCHANGED <<emitted, key, clock, writerVars, pipelineVars, auxVars>>

RemoveAt(f, i) == SubSeq(f, 1, i - 1) \o SubSeq(f, i + 1, Len(f))

InsertAfter(f, pos, line) == SubSeq(f, 1, pos) \o <<line>> \o SubSeq(f, pos + 1, Len(f))

\* record i is removed from the file
DeleteRecord(i) ==
    /\ CanTamper
    /\ file' = RemoveAt(file, i)
    /\ tamper' = Tampered("delete", i, "")
    /\ verified' = "none"
    /\ appended' = <<>>
    /\ UNCHANGED <<emitted, key, clock, writerVars, pipelineVars, auxVars>>

ForgedPayloads == {Dumps(<<Item("event", PyAtom("one"))>>), Dumps(<<Item("event", PyAtom("forged"))>>)}

\* the lines an editor can put after record pos: copies of lines of the file,
\* and new lines whose digests are computed over their own body, taken from
\* the neighbours or missing; signed with any key, by a neighbour, or not.
ForgedLines(f, pos) ==
    {f[j] : j \in 1..Len(f)} \cup
    { [index |-> f[pos].index + 1, timestamp |-> f[pos].timestamp, payload |-> p,
       prev_hash |-> ph,
       hash |-> IF own THEN Sha256Hex(Body(f[pos].index + 1, f[pos].timestamp, Loads(p), ph))
                ELSE f[pos].hash,
       signature |-> IF sk = "" THEN Null
                     ELSE IF sk = "copy" THEN f[pos].signature
                     ELSE HmacSign(sk, Body(f[pos].index + 1, f[pos].timestamp, Loads(p), ph))] :
        p \in ForgedPayloads, ph \in {Null, f[pos].hash, f[pos].prev_hash},
        own \in BOOLEAN, sk \in {"", "copy", AttackerKey} \cup LedgerKeys }

\* an extra record is put between records pos and pos + 1
InsertRecord(pos) ==
    /\ CanTamper
    /\ pos < Len(file)
    /\ \E line \in ForgedLines(file, pos) : file' = InsertAfter(file, pos, line)
    /\ tamper' = Tampered("insert", pos, "")
    /\ verified' = "none"
    /\ appended' = <<>>
    /\ UNCHANGED <<emitted, key, clock, writerVars, pipelineVars, auxVars>>

Orderings(n) ==
    {p \in [1..n -> 1..n] : \A a, b \in 1..n : p[a] = p[b] => a = b}

\* the records of the file are put in another order
ReorderRecords ==
    /\ CanTamper
    /\ \E p \in Orderings(Len(file)) :
          /\ \E a \in 1..Len(file) : p[a] # a
          /\ file' = [a \in 1..Len(file) |-> file[p[a]]]
    /\ tamper' = Tampered("reorder", 0, "")
    /\ verified' = "none"
    /\ appended' = <<>>
    /\ UNCHANGED <<emitted, key, clock, writerVars, pipelineVars, auxVars>>

\* What a party without the ledger key can do to the signature of a record it
\* rewrites: leave it, drop it, or sign with a key of its own.
Resign(line, mode) ==
    IF mode = "keep" THEN line.signature
    ELSE IF mode = "strip" THEN Null
    ELSE HmacSign(AttackerKey, LineBody(line))

Rehash(line, prev_hash, mode) ==
    LET l1 == [line EXCEPT !.prev_hash = prev_hash]
        l2 == [l1 EXCEPT !.hash = Sha256Hex(LineBody(l1))]
    IN  [l2 EXCEPT !.signature = Resign(l2, mode)]

\* the file with the payload of record i replaced and the hash of record i and
\* the prev_hash and hash of every later record recomputed
RECURSIVE RewriteFrom(_, _, _, _, _)
RewriteFrom(f, i, payload, mode, j) ==
    IF j > Len(f) THEN f
    ELSE IF j < i THEN RewriteFrom(f, i, payload, mode, j + 1)
    ELSE LET line == IF j = i THEN [f[j] EXCEPT !.payload = payload] ELSE f[j]
             prev == IF j = i THEN f[j].prev_hash ELSE f[j - 1].hash
         IN  RewriteFrom([f EXCEPT ![j] = Rehash(line, prev, mode)], i, payload, mode, j + 1)

\* a party without the signing key rewrites the payload of record i and
\* recomputes the chain from there on
RewriteChain(i, mode) ==
    /\ CanTamper
    /\ \E p \in ForgedPayloads :
          /\ Loads(p) # Loads(file[i].payload)
          /\ file' = RewriteFrom(file, i, p, mode, 1)
    /\ tamper' = Tampered("rewrite", i, mode)
    /\ verified' = "none"
    /\ appended' = <<>>
    /\ UNCHANGED <<emitted, key, clock, writerVars, pipelineVars, auxVars>>

Next ==
    \/ \E p \in Payloads : AppendCall(p)
    \/ VerifyCall
    \/ \E i \in 1..Len(file), field \in MutableFields : MutateField(i, field)
    \/ \E i \in 1..Len(file) : DeleteRecord(i)
    \/ \E pos \in 1..Len(file) : InsertRecord(pos)
    \/ ReorderRecords
    \/ \E i \in 1..Len(file), mode \in {"keep", "strip", "resign"} : RewriteChain(i, mode)

Spec == Init /\ [][Next]_vars

-----------------------------------------------------------------------------
(* Several writers appending to one file: append reads the tail (lines     *)
(* 104-106) and writes its line (lines 138-139) as two steps, with no lock.*)

Writers == {"w1", "w2"}

ConcInit ==
    /\ LedgerInit
    /\ wpc = [w \in Writers |-> "idle"]
    /\ wlast = [w \in Writers |-> <<>>]
    /\ wpayload = [w \in Writers |-> <<>>]
    /\ PipelineIdle
    /\ AuxIdle

InFlight == Cardinality({w \in Writers : wpc[w] = "read"})

\* append, lines 104-109: the writer scans the file for its last record
AppendReadTail(w, payload) ==
    /\ wpc[w] = "idle"
    /\ Len(file) + InFlight < MaxRecords
    /\ wlast' = [wlast EXCEPT ![w] = ReadTail(file)]
    /\ wpayload' = [wpayload EXCEPT ![w] = payload]
    /\ wpc' = [wpc EXCEPT ![w] = "read"]
    /\ UNCHANGED <<ledgerVars, pipelineVars, auxVars>>

\* append, lines 111-141: the writer builds its record on the tail it read and
\* appends one line
AppendWrite(w) ==
    /\ wpc[w] = "read"
    /\ \E t \in Now :
        LET rec == BuildRecord(wlast[w], wpayload[w], t, key)
        IN  /\ file' = Append(file, ToJson(rec))
            /\ appended' = <<rec>>
            /\ clock' = t
    /\ verified' = "none"
    /\ wpc' = [wpc EXCEPT ![w] = "idle"]
    /\ wlast' = [wlast EXCEPT ![w] = <<>>]
    /\ wpayload' = [wpayload EXCEPT ![w] = <<>>]
    /\ UNCHANGED <<emitted, key, tamper, pipelineVars, auxVars>>

\* verify() by any process
ConcVerify ==
    /\ verified = "none"
    /\ verified' = IF Verify(file, key) THEN "true" ELSE "false"
    /\ UNCHANGED <<emitted, file, key, clock, appended, tamper, writerVars, pipelineVars, auxVars>>

ConcNext ==
    \/ \E w \in Writers, p \in Payloads : AppendReadTail(w, p)
    \/ \E w \in Writers : AppendWrite(w)
    \/ ConcVerify

SpecConc == ConcInit /\ [][ConcNext]_vars

-----------------------------------------------------------------------------
(* Properties of the ledger *)

\* C1: after N >= 1 sequential appends to an initially empty file, with or
\* without a signing key, verify() returns true.
C1_AppendsVerify ==
    (tamper.kind = "none" /\ Len(file) >= 1 /\ verified # "none") => verified = "true"

C3_StructureTamperDetected ==
    (/\ tamper.kind \in {"delete", "insert", "reorder"}
     /\ tamper.valid
     /\ tamper.n >= 3
     /\ tamper.kind = "delete" => (1 < tamper.pos /\ tamper.pos < tamper.n)
     /\ verified # "none")
        => verified = "false"

\* an inserted record that chains to its predecessor, carries the hash of its
\* own body and a signature the key holder made, and is still rejected
C3_Witness ==
    /\ tamper.kind = "insert"
    /\ tamper.valid
    /\ tamper.n >= 3
    /\ key # ""
    /\ RecordOk(ParseLine(file[tamper.pos + 1]), file[tamper.pos].hash, key)
    /\ verified = "false"

\* C4: after sequential appends the k-th record (from 0) has index k, the
\* first has prev_hash null, every later one has the stored hash of the record
\* before it as prev_hash, and the record an append returns is the last one,
\* numbered one more than the last record before it.
C4_ChainShape ==
    tamper.kind = "none" =>
        /\ \A k \in 1..Len(file) :
              /\ file[k].index = k - 1
              /\ file[k].prev_hash = IF k = 1 THEN Null ELSE file[k - 1].hash
        /\ appended # <<>> =>
              /\ ToJson(appended[1]) = file[Len(file)]
              /\ Len(file) >= 2 => appended[1].index = file[Len(file) - 1].index + 1
              /\ Len(file) = 1 => appended[1].index = 0

C4_Witness ==
    /\ tamper.kind = "none"
    /\ Len(file) = 3
    /\ appended # <<>>
    /\ appended[1].index = 2

\* C5: under every interleaving of appends by several writers, no two
\* persisted records carry the same index or the same prev_hash.
C5_NoTwoRecordsShareTail ==
    \A i, j \in 1..Len(file) :
        i < j => /\ file[i].index # file[j].index
                 /\ file[i].prev_hash # file[j].prev_hash

\* C6: with a signing key configured, verify() returns false when a record has
\* no signature or one that is not the HMAC of its stored body; a rewrite of a
\* payload with all hashes recomputed, by a party without the key, is rejected.
C6_SignatureRequired ==
    (key # "" /\ verified # "none") =>
        /\ (\E i \in 1..Len(file) :
               \/ file[i].signature = Null
               \/ file[i].signature # HmacSign(key, LineBody(file[i])))
              => verified = "false"
        /\ tamper.kind = "rewrite" => verified = "false"

\* a rewritten file whose hash chain alone is consistent, rejected under the key
C6_Witness ==
    /\ key # ""
    /\ tamper.kind = "rewrite"
    /\ tamper.valid
    /\ tamper.pos < tamper.n
    /\ Verify(file, "")
    /\ verified = "false"

-----------------------------------------------------------------------------
(* Texts *)

MaxPromptLen == 2

Chars == {"a", "B"}

\* str.lower, one character
LowerChar(c) == IF c = "B" THEN "b" ELSE c

\* str.lower
Lower(text) == [i \in 1..Len(text) |-> LowerChar(text[i])]

Min(a, b) == IF a < b THEN a ELSE b
Max(a, b) == IF a < b THEN b ELSE a

\* text[start:end] for 0 <= start, with Python's clamping to the text
Slice(text, start, end) == SubSeq(text, start + 1, Min(end, Len(text)))

\* text.find(sub): the least offset at which sub occurs in text, -1 when none
Find(text, sub) ==
    LET at == {i \in 0..(Len(text) - Len(sub)) : Slice(text, i, i + Len(sub)) = sub}
    IN  IF at = {} THEN 0 - 1 ELSE CHOOSE i \in at : \A j \in at : i <= j

\* re.finditer(lit, text, re.IGNORECASE) for a literal: the matches from
\* offset from on, leftmost first, none overlapping
RECURSIVE FindIter(_, _, _)
FindIter(text, lit, from) ==
    IF from + Len(lit) > Len(text) THEN <<>>
    ELSE IF Lower(Slice(text, from, from + Len(lit))) = Lower(lit)
         THEN <<[start |-> from, end |-> from + Len(lit)]>>
                  \o FindIter(text, lit, from + Len(lit))
         ELSE FindIter(text, lit, from + 1)

\* the concatenation of the sequences f[1], ..., f[n]
RECURSIVE Concat(_, _)
Concat(f, n) == IF n = 0 THEN <<>> ELSE Concat(f, n - 1) \o f[n]

-----------------------------------------------------------------------------
(* app/compliance/engine.py *)

NoOffset == 0 - 1

Rule(id, framework, name, severity, action, entity_types, keywords, patterns) ==
    [id |-> id, framework |-> framework, name |-> name, severity |-> severity,
     action |-> action, entity_types |-> entity_types, keywords |-> keywords,
     patterns |-> patterns]

Violation(rule, matched, start, end, types) ==
    [rule_id |-> rule.id, framework |-> rule.framework, rule_name |-> rule.name,
     severity |-> rule.severity, action |-> rule.action, matched_content |-> matched,
     start |-> start, end |-> end, entity_types |-> types]

\* load_rules, lines 31-40, without the check for a duplicate id
AddRuleKeepAll(rules, rule) ==
    LET known == IF rule.framework \in DOMAIN rules THEN rules
                 ELSE rules @@ (rule.framework :> <<>>)
    IN  [known EXCEPT ![rule.framework] = Append(@, rule)]

\* load_rules, lines 31-40: one rule put into the dict under construction
AddRule(rules, rule) ==
    LET known == IF rule.framework \in DOMAIN rules THEN rules
                 ELSE rules @@ (rule.framework :> <<>>)
        existing_ids == {known[rule.framework][i].id :
                            i \in 1..Len(known[rule.framework])}
    IN  IF rule.id \notin existing_ids
        THEN [known EXCEPT ![rule.framework] = Append(@, rule)]
        ELSE known

RECURSIVE LoadRulesFrom(_, _)
LoadRulesFrom(list, n) ==
    IF n = 0 THEN <<>> ELSE AddRule(LoadRulesFrom(list, n - 1), list[n])

\* the frameworks of a rule list in order of first occurrence (dict key order)
RECURSIVE FrameworksOf(_, _)
FrameworksOf(list, n) ==
    IF n = 0 THEN <<>>
    ELSE LET before == FrameworksOf(list, n - 1)
         IN  IF \E i \in 1..Len(before) : before[i] = list[n].framework
             THEN before ELSE Append(before, list[n].framework)

\* _check_rule, lines 93-108: one violation per entity of a listed type
EntityViolations(entities, rule) ==
    LET hit(e) == \E i \in 1..Len(rule.entity_types) : rule.entity_types[i] = e.type
        hits == SelectSeq(entities, hit)
    IN  IF rule.entity_types = <<>> THEN <<>>
        ELSE [i \in 1..Len(hits) |->
                Violation(rule, hits[i].value, NoOffset, NoOffset, <<hits[i].type>>)]

\* _check_rule, lines 110-128, without the break: one violation per keyword found
KeywordViolationsEach(text, rule) ==
    LET found(kw) == Find(Lower(text), Lower(kw)) >= 0
        hits == SelectSeq(rule.keywords, found)
    IN  [i \in 1..Len(hits) |->
            Violation(rule, hits[i], Find(Lower(text), Lower(hits[i])),
                      Find(Lower(text), Lower(hits[i])) + Len(hits[i]), <<>>)]

\* _check_rule, lines 110-128: one violation for the first keyword found
KeywordViolations(text, rule) ==
    LET found == {i \in 1..Len(rule.keywords) :
                     Find(Lower(text), Lower(rule.keywords[i])) >= 0}
        first == CHOOSE i \in found : \A j \in found : i <= j
        kw == rule.keywords[first]
        at == Find(Lower(text), Lower(kw))
    IN  IF found = {} THEN <<>>
        ELSE <<Violation(rule, kw, at, at + Len(kw), <<>>)>>

\* _check_rule, lines 130-150: one violation per match of each pattern that
\* compiles; a pattern that does not compile is skipped
PatternViolations(text, rule) ==
    LET of(pattern) ==
            IF ~pattern.valid THEN <<>>
            ELSE LET ms == FindIter(text, pattern.lit, 0)
                 IN  [i \in 1..Len(ms) |->
                        Violation(rule, Slice(text, ms[i].start, ms[i].end),
                                  ms[i].start, ms[i].end, <<>>)]
    IN  Concat([i \in 1..Len(rule.patterns) |-> of(rule.patterns[i])], Len(rule.patterns))

CheckRule(text, entities, rule) ==
    EntityViolations(entities, rule) \o KeywordViolations(text, rule)
        \o PatternViolations(text, rule)

\* check_compliance, lines 66-72
AllViolations(rules, text, entities, frameworks) ==
    LET of(framework) ==
            IF framework \notin DOMAIN rules THEN <<>>
            ELSE Concat([i \in 1..Len(rules[framework]) |->
                            CheckRule(text, entities, rules[framework][i])],
                        Len(rules[framework]))
    IN  Concat([i \in 1..Len(frameworks) |-> of(frameworks[i])], Len(frameworks))

\* check_compliance, lines 74-77, counting CRITICAL violations only
IsCompliantCriticalOnly(violations) ==
    LET critical_violations == SelectSeq(violations, LAMBDA v : v.severity = "critical")
    IN  Len(critical_violations) = 0

\* check_compliance, lines 74-77
IsCompliant(violations) ==
    LET critical_violations ==
            SelectSeq(violations, LAMBDA v : v.severity \in {"critical", "high"})
    IN  Len(critical_violations) = 0

\* check_compliance(text, detected_entities, frameworks)
CheckCompliance(rules, text, entities, frameworks) ==
    LET violations == AllViolations(rules, text, entities, frameworks)
    IN  [frameworks_checked |-> frameworks, violations |-> violations,
         compliant |-> IsCompliant(violations)]

-----------------------------------------------------------------------------
(* app/compliance/redaction.py *)

Entity(type, value, start, end) ==
    [type |-> type, value |-> value, start |-> start, end |-> end]

\* the entity types of the model, in the order sorted() gives their names
TypeOrder == <<"EMAIL", "PROMPT_INJECTION", "SSN">>

TypeNames == {TypeOrder[i] : i \in 1..Len(TypeOrder)}

\* the characters of a type name
TypeChars(name) ==
    CASE name = "EMAIL" -> <<"E", "M", "A", "I", "L">>
      [] name = "SSN" -> <<"S", "S", "N">>
      [] name = "PROMPT_INJECTION" -> <<"PROMPT_INJECTION">>

\* "|".join(sorted(types)), as a string
RECURSIVE JoinTypes(_, _)
JoinTypes(types, n) ==
    IF n = 0 THEN ""
    ELSE LET head == JoinTypes(types, n - 1)
         IN  IF TypeOrder[n] \notin types THEN head
             ELSE IF head = "" THEN TypeOrder[n]
             ELSE head \o "|" \o TypeOrder[n]

\* set(t.strip() for t in c_type.split("|"))
SplitTypes(type) ==
    CHOOSE types \in SUBSET TypeNames : JoinTypes(types, Len(TypeOrder)) = type

\* the characters of a type string: its names with "|" between them
RECURSIVE JoinChars(_, _)
JoinChars(types, n) ==
    IF n = 0 THEN <<>>
    ELSE LET head == JoinChars(types, n - 1)
         IN  IF TypeOrder[n] \notin types THEN head
             ELSE IF head = <<>> THEN TypeChars(TypeOrder[n])
             ELSE head \o <<"|">> \o TypeChars(TypeOrder[n])

StringChars(type) == JoinChars(SplitTypes(type), Len(TypeOrder))

\* sorted(entities, key=start, reverse=desc): stable
RECURSIVE SortByStart(_, _, _)
SortByStart(entities, n, desc) ==
    IF n = 0 THEN <<>>
    ELSE LET sorted == SortByStart(entities, n - 1, desc)
             e == entities[n]
             k == Cardinality({i \in 1..Len(sorted) :
                                  IF desc THEN sorted[i].start >= e.start
                                  ELSE sorted[i].start <= e.start})
         IN  SubSeq(sorted, 1, k) \o <<e>> \o SubSeq(sorted, k + 1, Len(sorted))

\* _merge_entities, lines 71-84, with the end of next_ent taken in place of the
\* larger end
MergeIntoLastEnd(current, next_ent, text) ==
    LET end == next_ent.end
        type == IF next_ent.type # current.type
                THEN JoinTypes(SplitTypes(current.type) \cup {next_ent.type}, Len(TypeOrder))
                ELSE current.type
    IN  Entity(type, Slice(text, current.start, end), current.start, end)

\* _merge_entities, lines 71-84: next_ent merged into current
MergeInto(current, next_ent, text) ==
    LET end == Max(current.end, next_ent.end)
        type == IF next_ent.type # current.type
                THEN JoinTypes(SplitTypes(current.type) \cup {next_ent.type}, Len(TypeOrder))
                ELSE current.type
    IN  Entity(type, Slice(text, current.start, end), current.start, end)

\* _merge_entities, lines 69-89: the loop from sorted_ents[i] on
RECURSIVE MergeLoop(_, _, _, _, _)
MergeLoop(sorted_ents, i, current, merged, text) ==
    IF i > Len(sorted_ents) THEN Append(merged, current)
    ELSE IF sorted_ents[i].start <= current.end
         THEN MergeLoop(sorted_ents, i + 1, MergeInto(current, sorted_ents[i], text),
                        merged, text)
         ELSE MergeLoop(sorted_ents, i + 1, sorted_ents[i], Append(merged, current), text)

\* _merge_entities(entities, text)
MergeEntities(entities, text) ==
    LET valid_entities == SelectSeq(entities, LAMBDA e : e.start >= 0 /\ e.end > e.start)
        sorted_ents == SortByStart(valid_entities, Len(valid_entities), FALSE)
    IN  IF valid_entities = <<>> THEN <<>>
        ELSE MergeLoop(sorted_ents, 2, sorted_ents[1], <<>>, text)

Stars(n) == [i \in 1..n |-> "*"]

\* the characters of a text as one string
RECURSIVE JoinText(_, _)
JoinText(text, n) == IF n = 0 THEN "" ELSE JoinText(text, n - 1) \o text[n]

\* lines 234-244: the first 8 hex digits of the digest (keyed or not) of the
\* original, one element of the output
HashVal(original) == "digest(" \o JoinText(original, Len(original)) \o ")"

\* _generate_redacted_value(original, entity_type, strategy)
GenerateRedactedValue(original, entity_type, strategy) ==
    CASE strategy = "full_mask" -> Stars(4)
      [] strategy = "token" -> <<"[">> \o StringChars(entity_type) \o <<"]">>
      [] strategy = "partial" ->
            IF Len(original) <= 4 THEN Stars(Len(original))
            ELSE <<original[1]>> \o Stars(Len(original) - 2) \o <<original[Len(original)]>>
      [] strategy = "hash" ->
            <<"[">> \o StringChars(entity_type) \o <<":", HashVal(original), "]">>
      [] OTHER -> Stars(4)

\* redact_text, lines 126-151: the loop from sorted_entities[i] on
RECURSIVE RedactLoop(_, _, _, _, _)
RedactLoop(sorted_entities, i, redacted_text, records, strategy) ==
    IF i > Len(sorted_entities) THEN [text |-> redacted_text, records |-> records]
    ELSE LET entity == sorted_entities[i]
             redacted == GenerateRedactedValue(entity.value, entity.type, strategy)
         IN  IF entity.value = <<>> \/ entity.start < 0 \/ entity.end <= entity.start
             THEN RedactLoop(sorted_entities, i + 1, redacted_text, records, strategy)
             ELSE RedactLoop(sorted_entities, i + 1,
                             Slice(redacted_text, 0, entity.start) \o redacted
                                 \o Slice(redacted_text, entity.end, Len(redacted_text)),
                             Append(records, [original |-> entity.value,
                                              redacted |-> redacted,
                                              type |-> entity.type,
                                              strategy |-> strategy,
                                              start |-> entity.start,
                                              end |-> entity.end]),
                             strategy)

\* redact_text with the merged entities taken in ascending order of start
RedactTextAscending(text, entities, strategy) ==
    LET merged_entities == MergeEntities(entities, text)
        sorted_entities == SortByStart(merged_entities, Len(merged_entities), FALSE)
    IN  RedactLoop(sorted_entities, 1, text, <<>>, strategy)

\* redact_text(text, entities, strategy)
RedactText(text, entities, strategy) ==
    LET merged_entities == MergeEntities(entities, text)
        sorted_entities == SortByStart(merged_entities, Len(merged_entities), TRUE)
    IN  RedactLoop(sorted_entities, 1, text, <<>>, strategy)

\* redact_action(text, entities, action)
RedactAction(text, entities, action) ==
    CASE action = "block" -> [text |-> <<>>, records |-> <<>>]
      [] action = "redact" -> RedactText(text, entities, "token")
      [] action = "flag" -> [text |-> text, records |-> <<>>]
      [] OTHER -> [text |-> text, records |-> <<>>]

-----------------------------------------------------------------------------
(* Rules and detector output *)

Literal(lit) == [valid |-> TRUE, lit |-> lit]

SecInjection ==
    Rule("sec_001", "Security", "Prompt Injection", "critical", "block",
         <<"PROMPT_INJECTION">>, <<>>, <<>>)
HipaaSsn ==
    Rule("hipaa_001", "HIPAA", "Social Security Number", "high", "redact",
         <<"SSN">>, <<>>, <<>>)
GdprEmail ==
    Rule("gdpr_001", "GDPR", "Email Address", "medium", "flag", <<"EMAIL">>, <<>>, <<>>)
GdprKeyword ==
    Rule("gdpr_002", "GDPR", "Confidential Marker", "low", "flag",
         <<>>, <<<<"a", "b">>>>, <<>>)
PciPattern ==
    Rule("pci_001", "PCI-DSS", "Card Number", "critical", "block",
         <<>>, <<>>, <<Literal(<<"b">>)>>)
PipedaSin ==
    Rule("pipeda_001", "PIPEDA", "Social Insurance Number", "high", "block",
         <<"SSN">>, <<>>, <<>>)
\* another definition under the framework and id of HipaaSsn
HipaaSsnStrict ==
    Rule("hipaa_001", "HIPAA", "Social Security Number Strict", "critical", "block",
         <<"SSN">>, <<>>, <<>>)

\* rule_name.upper()
UpperName(name) ==
    CASE name = "Prompt Injection" -> "PROMPT INJECTION"
      [] name = "Social Security Number" -> "SOCIAL SECURITY NUMBER"
      [] name = "Email Address" -> "EMAIL ADDRESS"
      [] name = "Confidential Marker" -> "CONFIDENTIAL MARKER"
      [] name = "Card Number" -> "CARD NUMBER"
      [] name = "Social Insurance Number" -> "SOCIAL INSURANCE NUMBER"
      [] name = "Social Security Number Strict" -> "SOCIAL SECURITY NUMBER STRICT"

\* what load_compliance_rules() can return: the rule files of a deployment
RuleConfigs ==
    { <<>>,
      <<SecInjection>>,
      <<GdprEmail, GdprKeyword>>,
      <<HipaaSsn, GdprEmail>>,
      <<GdprEmail, PciPattern>>,
      <<PciPattern, HipaaSsn, SecInjection>>,
      <<PipedaSin, GdprEmail>>,
      <<HipaaSsn, HipaaSsn, GdprKeyword>> }

\* the texts of at most n characters, none empty
Texts(n) == UNION {[1..k -> Chars] : k \in 1..n}

Spans(n) == {s \in (0..n) \X (0..n) : s[1] < s[2]}

\* the sets of spans re.finditer can return for one pattern: none overlapping
MatchSets(n) ==
    {S \in SUBSET Spans(n) :
        \A x, y \in S : x # y => (x[2] <= y[1] \/ y[2] <= x[1])}

\* detect_pii, lines 35-43: the entities of one type, by start
RECURSIVE MatchesOf(_, _, _)
MatchesOf(type, S, text) ==
    IF S = {} THEN <<>>
    ELSE LET m == CHOOSE x \in S : \A y \in S : x[1] <= y[1]
         IN  <<[type |-> type, value |-> Slice(text, m[1], m[2]),
                position |-> [start |-> m[1], end |-> m[2]]]>>
                 \o MatchesOf(type, S \ {m}, text)

\* detect_pii(text): the patterns in the order of REGEX_PATTERNS
DetectorOutputs(text) ==
    {MatchesOf("SSN", S1, text) \o MatchesOf("EMAIL", S2, text) :
        S1 \in MatchSets(Len(text)), S2 \in MatchSets(Len(text))}

\* analyze_prompt, lines 147-167
Normalize(raw_entities, injection_detected, prompt) ==
    [i \in 1..Len(raw_entities) |->
        Entity(raw_entities[i].type, raw_entities[i].value,
               raw_entities[i].position.start, raw_entities[i].position.end)]
    \o (IF injection_detected
        THEN <<Entity("PROMPT_INJECTION", prompt, 0, Len(prompt))>>
        ELSE <<>>)

-----------------------------------------------------------------------------
(* The engine on its own: load_rules and check_compliance *)

MaxRules == 2

RuleUniverse ==
    {SecInjection, HipaaSsn, GdprEmail, GdprKeyword, PciPattern, PipedaSin, HipaaSsnStrict}

RuleLists == UNION {[1..k -> RuleUniverse] : k \in 0..MaxRules}

\* the frameworks argument of check_compliance: <<>> stands for None
FrameworkArgs ==
    { <<>>, <<"Security", "GDPR", "HIPAA", "PCI-DSS">>, <<"PIPEDA", "SOC2", "HIPAA">> }

IdleReq == [pc |-> "idle"]

\* no ledger is in use
LedgerOff ==
    /\ file = <<>>
    /\ key = ""
    /\ clock = 0
    /\ appended = <<>>
    /\ verified = "none"
    /\ tamper = NoTamper
    /\ emitted = <<>>

MaxEntities == 2

\* entity lists handed to check_compliance for a text
EntityLists(text) ==
    LET some == {Entity("SSN", Slice(text, 0, 1), 0, 1),
                 Entity("EMAIL", text, 0, Len(text)),
                 Entity("PROMPT_INJECTION", text, 0, Len(text))}
    IN  UNION {[1..k -> some] : k \in 0..MaxEntities}

EngineInit ==
    /\ LedgerOff
    /\ WritersIdle
    /\ engineRules = <<>>
    /\ engineFrameworks = <<>>
    /\ lastLoad = <<>>
    /\ result = <<>>
    /\ req = IdleReq
    /\ cache = <<>>
    /\ AuxIdle

\* ComplianceEngine.load_rules(rules); the engine is called by one caller, a
\* call starting when the last has returned
LoadRules(list) ==
    /\ result = <<>>
    /\ lastLoad' = list
    /\ engineRules' = LoadRulesFrom(list, Len(list))
    /\ engineFrameworks' = FrameworksOf(list, Len(list))
    /\ result' = <<>>
    /\ UNCHANGED <<auxVars, ledgerVars, writerVars, req, cache>>

\* ComplianceEngine.check_compliance(text, detected_entities, frameworks); the
\* result of a call is a function of the engine and the arguments, so one call
\* is taken per load
CheckComplianceCall ==
    /\ result = <<>>
    /\ \E text \in Texts(MaxPromptLen), frameworks \in FrameworkArgs :
          \E entities \in EntityLists(text) :
              /\ args' = [fn |-> "check_compliance", text |-> text,
                          entities |-> entities, frameworks |-> frameworks]
              /\ result' = <<CheckCompliance(engineRules, text, entities,
                                             IF frameworks = <<>> THEN engineFrameworks
                                             ELSE frameworks)>>
    /\ UNCHANGED <<out, sideVars, ledgerVars, writerVars, engineRules, engineFrameworks, lastLoad,
                   req, cache>>

\* the caller has the ComplianceResult
CheckComplianceReturn ==
    /\ result # <<>>
    /\ result' = <<>>
    /\ args' = <<>>
    /\ UNCHANGED <<out, sideVars, ledgerVars, writerVars, engineRules, engineFrameworks, lastLoad,
                   req, cache>>

EngineNext ==
    \/ \E list \in RuleLists : LoadRules(list)
    \/ CheckComplianceCall
    \/ CheckComplianceReturn

SpecEngine == EngineInit /\ [][EngineNext]_vars

-----------------------------------------------------------------------------
(* app/main.py: POST /v1/analyze, and the composite worker task *)

AnalyzeFrameworks == <<"Security", "GDPR", "HIPAA", "PCI-DSS">>

\* analyze_prompt, lines 184-196, with the redaction run whether or not a
\* violation blocks
ResolveActionRedactFirst(prompt, entities, violations) ==
    LET redacted == RedactText(prompt, entities, "token").text
    IN  [sanitized |-> redacted, stages |-> <<"resolve_action", "redact_text">>]

\* analyze_prompt, lines 184-196: the sanitized prompt and the stages run
ResolveAction(prompt, entities, violations) ==
    LET blocks == {i \in 1..Len(violations) : violations[i].action = "block"}
        should_block == blocks # {}
        blocking_violation == violations[CHOOSE i \in blocks : \A j \in blocks : i <= j]
    IN  IF should_block
        THEN [sanitized |-> <<"[FILTERED DUE TO ", UpperName(blocking_violation.rule_name), "]">>,
              stages |-> <<"resolve_action">>]
        ELSE [sanitized |-> RedactText(prompt, entities, "token").text,
              stages |-> <<"resolve_action", "redact_text">>]

AnalyzeInit ==
    /\ LedgerOff
    /\ WritersIdle
    /\ engineRules = <<>>
    /\ engineFrameworks = <<>>
    /\ lastLoad = <<>>
    /\ result = <<>>
    /\ req = IdleReq
    /\ cache = <<>>
    /\ AuxIdle

\* lines 123-132 with no cached result: the request goes on
AnalyzeStart(prompt) ==
    /\ req.pc = "idle"
    /\ cache = <<>>
    /\ req' = [pc |-> "started", handler |-> "analyze_prompt", prompt |-> prompt,
               cached |-> FALSE, stages |-> <<>>]
    /\ UNCHANGED <<auxVars, ledgerVars, writerVars, engineRules, engineFrameworks, lastLoad, result, cache>>

\* lines 126-132: the cached result of the same prompt is returned
AnalyzeCached ==
    /\ req.pc = "idle"
    /\ cache # <<>>
    /\ req' = [pc |-> "returned", handler |-> "analyze_prompt", prompt |-> cache[1].prompt,
               cached |-> TRUE, stages |-> <<>>, sanitized |-> cache[1].sanitized,
               compliant |-> cache[1].compliant, status |-> "completed"]
    /\ UNCHANGED <<auxVars, ledgerVars, writerVars, engineRules, engineFrameworks, lastLoad, result, cache>>

\* the cached result expires (or is evicted)
CacheExpire ==
    /\ req.pc = "idle"
    /\ cache # <<>>
    /\ cache' = <<>>
    /\ UNCHANGED <<auxVars, ledgerVars, writerVars, engineRules, engineFrameworks, lastLoad, result, req>>

\* lines 134-167: detection and normalisation
AnalyzeDetect ==
    /\ req.pc = "started"
    /\ \E raw_entities \in DetectorOutputs(req.prompt), injection_detected \in BOOLEAN :
          req' = [pc |-> "detected", handler |-> req.handler, prompt |-> req.prompt,
                  cached |-> FALSE, stages |-> <<"detect_pii">>,
                  raw |-> raw_entities, injection |-> injection_detected,
                  entities |-> Normalize(raw_entities, injection_detected, req.prompt)]
    /\ UNCHANGED <<auxVars, ledgerVars, writerVars, engineRules, engineFrameworks, lastLoad, result, cache>>

\* lines 169-178: the rules are loaded into the global engine and evaluated
AnalyzeCheck(rules) ==
    /\ req.pc = "detected"
    /\ LET loaded == LoadRulesFrom(rules, Len(rules))
           compliance_result ==
               CheckCompliance(loaded, req.prompt, req.entities, AnalyzeFrameworks)
       IN  /\ lastLoad' = rules
           /\ engineRules' = loaded
           /\ engineFrameworks' = FrameworksOf(rules, Len(rules))
           /\ result' = <<compliance_result>>
           /\ req' = [pc |-> "checked", handler |-> req.handler, prompt |-> req.prompt,
                      cached |-> FALSE, stages |-> Append(req.stages, "check_compliance"),
                      raw |-> req.raw, injection |-> req.injection,
                      entities |-> req.entities,
                      violations |-> compliance_result.violations,
                      compliant |-> compliance_result.compliant]
    /\ UNCHANGED <<auxVars, ledgerVars, writerVars, cache>>

\* lines 180-196: block, or redact
AnalyzeSanitize ==
    /\ req.pc = "checked"
    /\ LET resolved == ResolveAction(req.prompt, req.entities, req.violations)
       IN  req' = [pc |-> "sanitized", handler |-> req.handler, prompt |-> req.prompt,
                   cached |-> FALSE, stages |-> req.stages \o resolved.stages,
                   raw |-> req.raw, injection |-> req.injection,
                   entities |-> req.entities, violations |-> req.violations,
                   compliant |-> req.compliant, sanitized |-> resolved.sanitized]
    /\ UNCHANGED <<auxVars, ledgerVars, writerVars, engineRules, engineFrameworks, lastLoad, result, cache>>

\* lines 198-238: the result is cached (when a tenant is known and the cache
\* is up), the request is logged to the audit_logs table, the result returned;
\* a failing commit fails the request
AnalyzeRespond(cache_written, log_ok) ==
    /\ req.pc = "sanitized"
    /\ cache' = IF cache_written
                THEN <<[prompt |-> req.prompt, sanitized |-> req.sanitized,
                        compliant |-> req.compliant]>>
                ELSE cache
    /\ req' = [pc |-> IF log_ok THEN "returned" ELSE "failed",
               handler |-> req.handler, prompt |-> req.prompt,
               cached |-> FALSE, stages |-> Append(req.stages, "log_request"),
               raw |-> req.raw, injection |-> req.injection,
               entities |-> req.entities, violations |-> req.violations,
               compliant |-> req.compliant, sanitized |-> req.sanitized,
               status |-> "completed"]
    /\ UNCHANGED <<auxVars, ledgerVars, writerVars, engineRules, engineFrameworks, lastLoad, result>>

\* workers/celery_app.py analyze_complete_async: PII detection, compliance
\* check on a fresh engine, risk scoring; a failing sub-task ends the task
\* with an error result
AnalyzeCompleteAsync ==
    /\ req.pc = "idle"
    /\ cache = <<>>
    /\ \E text \in Texts(MaxPromptLen), rules \in RuleConfigs,
          failing \in {"none", "pii", "compliance", "risk"} :
          \E raw_entities \in DetectorOutputs(text) :
             LET entities == Normalize(raw_entities, FALSE, text)
                 loaded == LoadRulesFrom(rules, Len(rules))
                 compliance_result ==
                     CheckCompliance(loaded, text, entities,
                                     FrameworksOf(rules, Len(rules)))
                 stages ==
                     IF failing = "pii" THEN <<"detect_pii">>
                     ELSE IF failing = "compliance"
                          THEN <<"detect_pii", "check_compliance">>
                          ELSE <<"detect_pii", "check_compliance", "assess_risk">>
             IN  req' = [pc |-> "returned", handler |-> "analyze_complete_async",
                         prompt |-> text, cached |-> FALSE, stages |-> stages,
                         status |-> IF failing = "none" THEN "success" ELSE "error",
                         compliant |-> compliance_result.compliant]
    /\ UNCHANGED <<auxVars, ledgerVars, writerVars, engineRules, engineFrameworks, lastLoad, result, cache>>

\* the response has gone out and the handler's locals with it; the global
\* engine keeps its rules for the next request
AnalyzeDone ==
    /\ req.pc \in {"returned", "failed"}
    /\ req' = IdleReq
    /\ result' = <<>>
    /\ UNCHANGED <<auxVars, ledgerVars, writerVars, engineRules, engineFrameworks, lastLoad, cache>>

AnalyzeNext ==
    \/ \E prompt \in Texts(MaxPromptLen) : AnalyzeStart(prompt)
    \/ AnalyzeCached
    \/ CacheExpire
    \/ AnalyzeDetect
    \/ \E rules \in RuleConfigs : AnalyzeCheck(rules)
    \/ AnalyzeSanitize
    \/ \E cache_written, log_ok \in BOOLEAN : AnalyzeRespond(cache_written, log_ok)
    \/ AnalyzeCompleteAsync
    \/ AnalyzeDone

SpecAnalyze == AnalyzeInit /\ [][AnalyzeNext]_vars

-----------------------------------------------------------------------------
(* Properties of the request path *)

\* a request of POST /v1/analyze that ran the pipeline and has its decision
Decided == req.pc \in {"sanitized", "returned", "failed"}
               /\ req.handler = "analyze_prompt" /\ ~req.cached

\* stage a runs before stage b in the stages of the request
Before(a, b) ==
    \E i, j \in 1..Len(req.stages) : i < j /\ req.stages[i] = a /\ req.stages[j] = b

\* C7: every request runs the compliance check, then action resolution, then
\* the RiskScorer assessment, then AuditLedger.append of the decision summary;
\* a decision is returned only after its ledger record has been appended.
C7_LedgerAppendBeforeReturn ==
    (req.pc = "returned" /\ ~req.cached /\ req.status \in {"completed", "success"}) =>
        /\ Before("check_compliance", "resolve_action")
        /\ Before("resolve_action", "assess_risk")
        /\ Before("assess_risk", "ledger_append")
        /\ Len(file) >= 1

\* C8: when some violation of the compliance result carries BLOCK, wherever it
\* stands in the list and whatever the other violations carry, the sanitized
\* prompt is the filtered placeholder (named after the first BLOCK violation),
\* redact_text is not run, and no character of an entity value is in the output.
C8_BlockShortCircuits ==
    (Decided /\ \E i \in 1..Len(req.violations) : req.violations[i].action = "block") =>
        LET blocks == {i \in 1..Len(req.violations) : req.violations[i].action = "block"}
            first == CHOOSE i \in blocks : \A j \in blocks : i <= j
        IN  /\ req.sanitized = <<"[FILTERED DUE TO ",
                                 UpperName(req.violations[first].rule_name), "]">>
            /\ \A i \in 1..Len(req.stages) : req.stages[i] # "redact_text"
            /\ \A e \in 1..Len(req.entities), i \in 1..Len(req.sanitized) :
                  \A j \in 1..Len(req.entities[e].value) :
                      req.sanitized[i] # req.entities[e].value[j]

\* a REDACT violation comes first, a BLOCK violation after it, entities were
\* detected, and the output is the placeholder
C8_Witness ==
    /\ Decided
    /\ req.pc = "sanitized"
    /\ Len(req.violations) >= 2
    /\ req.violations[1].action = "redact"
    /\ \E i \in 2..Len(req.violations) : req.violations[i].action = "block"
    /\ req.entities # <<>>
    /\ req.sanitized[1] = "[FILTERED DUE TO "

\* C9: when no violation carries BLOCK and every violation carries FLAG (or
\* there is none), the sanitized prompt is the prompt unchanged, even if
\* entities were detected: only REDACT-tagged entities go to redaction.
C9_FlagPassesThrough ==
    (Decided /\ \A i \in 1..Len(req.violations) : req.violations[i].action = "flag") =>
        req.sanitized = req.prompt

\* C10: check_compliance returns compliant = false if and only if its
\* violations hold one of severity HIGH or CRITICAL; MEDIUM and LOW violations
\* alone leave compliant true.
C10_CompliantIffNoHighOrCritical ==
    result # <<>> =>
        LET violations == result[1].violations
        IN  (result[1].compliant = FALSE) <=>
                (\E i \in 1..Len(violations) :
                    violations[i].severity \in {"high", "critical"})

\* a result with violations, all of them MEDIUM or LOW, and compliant true
C10_Witness ==
    /\ result # <<>>
    /\ result[1].violations # <<>>
    /\ \A i \in 1..Len(result[1].violations) :
          result[1].violations[i].severity \in {"medium", "low"}
    /\ \E i \in 1..Len(result[1].violations) : result[1].violations[i].severity = "medium"
    /\ result[1].compliant = TRUE

-----------------------------------------------------------------------------
(* Calls of single functions: the arguments drawn, the function applied *)

\* a pattern re.finditer raises re.error on
BadPattern == [valid |-> FALSE, lit |-> <<"(">>]

\* a rule with every kind of criterion, repeated entity types, keywords that
\* occur together and a pattern that does not compile
MixedRule ==
    Rule("mix_001", "GDPR", "Mixed Criteria", "medium", "flag",
         <<"SSN", "EMAIL", "SSN">>,
         <<<<"b">>, <<"a">>, <<"b", "b">>>>,
         <<Literal(<<"b">>), BadPattern, Literal(<<"a">>)>>)

CheckRuleRules == RuleUniverse \cup {MixedRule}

\* the call returns
Return ==
    /\ args # <<>>
    /\ args' = <<>>
    /\ out' = <<>>
    /\ UNCHANGED <<ledgerVars, writerVars, pipelineVars, sideVars>>

\* ComplianceEngine._check_rule(text, detected_entities, rule)
CheckRuleCall ==
    /\ args = <<>>
    /\ \E rule \in CheckRuleRules, text \in Texts(MaxPromptLen) :
          \E entities \in EntityLists(text) :
              /\ args' = [fn |-> "check_rule", text |-> text, entities |-> entities,
                          rule |-> rule]
              /\ out' = <<CheckRule(text, entities, rule)>>
    /\ UNCHANGED <<ledgerVars, writerVars, pipelineVars, sideVars>>

\* the offsets at which sub occurs in text, case ignored
Occurrences(text, sub) ==
    {p \in 0..(Len(text) - Len(sub)) : Lower(Slice(text, p, p + Len(sub))) = Lower(sub)}

\* the matches of the patterns[1..n] that compile
RECURSIVE MatchCount(_, _, _)
MatchCount(text, patterns, n) ==
    IF n = 0 THEN 0
    ELSE MatchCount(text, patterns, n - 1)
            + (IF patterns[n].valid
               THEN Cardinality(Occurrences(text, patterns[n].lit)) ELSE 0)

\* C11: one rule evaluated against (text, entities) emits one violation per
\* entity whose type the rule lists, plus one if any of its keywords occurs in
\* the text (case ignored, however many occur), plus one per match of each of
\* its patterns that compiles; repeated matches are all kept.
C11_ViolationCount ==
    (args # <<>> /\ args.fn = "check_rule") =>
        LET rule == args.rule
            types == {rule.entity_types[j] : j \in 1..Len(rule.entity_types)}
            entity_hits == Cardinality({i \in 1..Len(args.entities) :
                                           args.entities[i].type \in types})
            keyword_hit == IF \E j \in 1..Len(rule.keywords) :
                                 Occurrences(args.text, rule.keywords[j]) # {}
                           THEN 1 ELSE 0
        IN  Len(out[1]) = entity_hits + keyword_hit
                              + MatchCount(args.text, rule.patterns, Len(rule.patterns))

\* two entities of a listed type, two keywords that occur, one pattern matching
\* twice and one that does not compile: five violations
C11_Witness ==
    /\ args # <<>>
    /\ args.fn = "check_rule"
    /\ args.rule = MixedRule
    /\ args.text = <<"B", "B">>
    /\ Len(args.entities) = 2
    /\ \A i \in 1..2 : args.entities[i].type = "SSN"
    /\ Cardinality({j \in 1..Len(args.rule.keywords) :
                       Occurrences(args.text, args.rule.keywords[j]) # {}}) = 2
    /\ Len(out[1]) = 5

-----------------------------------------------------------------------------
(* app/compliance/rules.py: RuleLoader *)

\* str.upper on the tokens of a rule file
UpperToken(token) ==
    CASE token = "gdpr" -> "GDPR"
      [] token = "hipaa" -> "HIPAA"
      [] token = "high" -> "HIGH"
      [] token = "block" -> "BLOCK"
      [] token = "urgent" -> "URGENT"
      [] token = "deny" -> "DENY"
      [] token = "nope" -> "NOPE"
      [] OTHER -> token

\* str.lower on the tokens of a rule file
LowerToken(token) ==
    CASE token = "High" -> "high"
      [] token = "PCI_DSS" -> "pci_dss"
      [] OTHER -> token

\* the members of the enums, name -> value (app/compliance/models.py)
ComplianceFrameworkEnum ==
    [HIPAA |-> "HIPAA", GDPR |-> "GDPR", PCI_DSS |-> "PCI-DSS", SOC2 |-> "SOC2",
     CCPA |-> "CCPA", PIPEDA |-> "PIPEDA", SECURITY |-> "Security"]
SeverityEnum == [CRITICAL |-> "critical", HIGH |-> "high", MEDIUM |-> "medium", LOW |-> "low"]
ComplianceActionEnum == [BLOCK |-> "block", REDACT |-> "redact", FLAG |-> "flag"]

\* one entry of the "rules" list of a YAML file; <<>> is a key that is absent
RuleData(id, framework, severity, action, entity_types) ==
    [id |-> id, framework |-> framework, name |-> "Rule From File",
     severity |-> severity, action |-> action, entity_types |-> entity_types,
     keywords |-> <<>>, patterns |-> <<>>]

\* _parse_rule(rule_data, default_framework): the rule, or the ValueError raised
ParseRule(rule_data, default_framework) ==
    LET framework_str == IF rule_data.framework # <<>> THEN rule_data.framework
                         ELSE default_framework
        severity_name == UpperToken(LowerToken(rule_data.severity))
        severity == IF severity_name \in DOMAIN SeverityEnum
                    THEN SeverityEnum[severity_name] ELSE SeverityEnum.MEDIUM
        action_name == UpperToken(LowerToken(rule_data.action))
        action == IF action_name \in DOMAIN ComplianceActionEnum
                  THEN ComplianceActionEnum[action_name] ELSE ComplianceActionEnum.FLAG
    IN  IF framework_str = <<>> THEN [raised |-> "Framework not specified"]
        ELSE IF UpperToken(framework_str[1]) \notin DOMAIN ComplianceFrameworkEnum
        THEN [raised |-> "Unknown framework"]
        ELSE IF rule_data.entity_types = <<>> /\ rule_data.keywords = <<>>
                   /\ rule_data.patterns = <<>>
        THEN [raised |-> "no matching criteria"]
        ELSE [raised |-> "",
              rule |-> Rule(rule_data.id,
                            ComplianceFrameworkEnum[UpperToken(framework_str[1])],
                            rule_data.name, severity, action, rule_data.entity_types,
                            rule_data.keywords, rule_data.patterns)]

\* load_rules_from_file, lines 81-91: the loop over data["rules"][1..n]
RECURSIVE ParseRules(_, _, _)
ParseRules(rules_data, default_framework, n) ==
    IF n = 0 THEN <<>>
    ELSE LET parsed == ParseRule(rules_data[n], default_framework)
             before == ParseRules(rules_data, default_framework, n - 1)
         IN  IF parsed.raised = "" THEN Append(before, parsed.rule) ELSE before

\* the entries a rule file can hold
RuleDataUniverse ==
    {RuleData("file_001", framework, severity, action, entity_types) :
        framework \in {<<>>, <<"gdpr">>, <<"PCI_DSS">>, <<"nope">>},
        severity \in {"High", "urgent"},
        action \in {"block", "deny"},
        entity_types \in {<<>>, <<"SSN">>}}

RuleDataLists == UNION {[1..k -> RuleDataUniverse] : k \in 0..MaxRules}

\* RuleLoader.load_rules_from_file(filepath) on a file with a "rules" list
LoadRulesFromFileCall ==
    /\ args = <<>>
    /\ \E rules_data \in RuleDataLists, default_framework \in {<<>>, <<"hipaa">>} :
          /\ args' = [fn |-> "load_rules_from_file", rules |-> rules_data,
                      framework |-> default_framework]
          /\ out' = <<ParseRules(rules_data, default_framework, Len(rules_data))>>
    /\ UNCHANGED <<ledgerVars, writerVars, pipelineVars, sideVars>>

\* the tokens of an entry are those of the enums and it has a match criterion
WellFormed(rule_data, default_framework) ==
    LET framework_str == IF rule_data.framework # <<>> THEN rule_data.framework
                         ELSE default_framework
    IN  /\ framework_str # <<>>
        /\ UpperToken(framework_str[1]) \in DOMAIN ComplianceFrameworkEnum
        /\ UpperToken(LowerToken(rule_data.severity)) \in DOMAIN SeverityEnum
        /\ UpperToken(LowerToken(rule_data.action)) \in DOMAIN ComplianceActionEnum
        /\ ~(rule_data.entity_types = <<>> /\ rule_data.keywords = <<>>
                /\ rule_data.patterns = <<>>)

\* C13: a rule definition with no match criteria, or with an unknown framework,
\* severity or action token, is rejected at load: the list returned holds the
\* rules of the well-formed definitions of the file, in order, and no other.
C13_MalformedRulesRejected ==
    (args # <<>> /\ args.fn = "load_rules_from_file") =>
        LET ok(rule_data) == WellFormed(rule_data, args.framework)
            wellformed == SelectSeq(args.rules, ok)
        IN  out[1] = [i \in 1..Len(wellformed) |->
                         ParseRule(wellformed[i], args.framework).rule]

-----------------------------------------------------------------------------
(* Properties of rule loading *)

\* the rules of a list under one framework, a rule whose id an earlier rule of
\* the framework has being left out
KeptRules(list, framework) ==
    LET kept(i) == /\ list[i].framework = framework
                   /\ \A j \in 1..(i - 1) :
                         ~(list[j].framework = framework /\ list[j].id = list[i].id)
        idx == SelectSeq([i \in 1..Len(list) |-> i], kept)
    IN  [k \in 1..Len(idx) |-> list[idx[k]]]

\* C12: after any sequence of load_rules calls the engine holds exactly the
\* rules of the last call, deduplicated by (framework, id) with the first
\* occurrence kept, in load order; no two held rules of a framework share an
\* id; what a later check finds depends on the last list alone, so loading a
\* list again changes neither the held rules nor the number of violations.
C12_HoldsLastLoadDeduplicated ==
    LET frameworks == {lastLoad[i].framework : i \in 1..Len(lastLoad)}
        held == [f \in frameworks |-> KeptRules(lastLoad, f)]
    IN  /\ DOMAIN engineRules = frameworks
        /\ \A f \in frameworks : engineRules[f] = held[f]
        /\ \A f \in frameworks : \A i, j \in 1..Len(engineRules[f]) :
              i # j => engineRules[f][i].id # engineRules[f][j].id
        /\ (result # <<>> /\ args # <<>>) =>
              Len(result[1].violations) =
                  Len(AllViolations(held, args.text, args.entities,
                                    result[1].frameworks_checked))

\* two definitions under one framework and id were loaded, the first is held
\* and a check found the one violation of the held rule
C12_Witness ==
    /\ Len(lastLoad) = 2
    /\ lastLoad[1] # lastLoad[2]
    /\ lastLoad[1].framework = lastLoad[2].framework
    /\ lastLoad[1].id = lastLoad[2].id
    /\ engineRules[lastLoad[1].framework] = <<lastLoad[1]>>
    /\ result # <<>>
    /\ Len(result[1].violations) = 1

-----------------------------------------------------------------------------
(* Calls of the redaction service *)

MaxTextLen == 3

\* the entities a caller can hand over for a text: every span inside the text
\* under two types, with the value the text has there, and the entities the
\* filter of lines 55-58 drops
EntitiesOver(text) ==
    {Entity(type, Slice(text, span[1], span[2]), span[1], span[2]) :
        type \in {"EMAIL", "SSN"}, span \in Spans(Len(text))}
    \cup {Entity("SSN", <<>>, 1, 1), Entity("EMAIL", text, 0 - 1, 1)}

EntityInputs(text) == UNION {[1..k -> EntitiesOver(text)] : k \in 0..MaxEntities}

\* RedactionService._merge_entities(entities, text)
MergeEntitiesCall ==
    /\ args = <<>>
    /\ \E text \in Texts(MaxTextLen) : \E entities \in EntityInputs(text) :
          /\ args' = [fn |-> "merge_entities", text |-> text, entities |-> entities]
          /\ out' = <<MergeEntities(entities, text)>>
    /\ UNCHANGED <<ledgerVars, writerVars, pipelineVars, sideVars>>

\* the offsets covered by the entities of a list that have start >= 0, end > start
Covered(entities) ==
    {p \in 0..MaxTextLen :
        \E i \in 1..Len(entities) :
            /\ entities[i].start >= 0
            /\ entities[i].end > entities[i].start
            /\ entities[i].start <= p
            /\ p < entities[i].end}

RedactionStrategies == {"token", "full_mask", "partial", "hash"}

\* RedactionService.redact_text(text, entities, strategy)
RedactTextCall ==
    /\ args = <<>>
    /\ \E text \in Texts(MaxTextLen), strategy \in RedactionStrategies :
          \E entities \in EntityInputs(text) :
              /\ args' = [fn |-> "redact_text", text |-> text, entities |-> entities,
                          strategy |-> strategy]
              /\ out' = <<RedactText(text, entities, strategy)>>
    /\ UNCHANGED <<ledgerVars, writerVars, pipelineVars, sideVars>>

\* sub occurs in text (case kept)
Contains(text, sub) ==
    \E p \in 0..(Len(text) - Len(sub)) : Slice(text, p, p + Len(sub)) = sub

\* every entity has 0 <= start < end and no two of them overlap
ValidNonOverlapping(entities) ==
    /\ \A i \in 1..Len(entities) : entities[i].start >= 0 /\ entities[i].end > entities[i].start
    /\ \A i, j \in 1..Len(entities) :
          i # j => (entities[i].end <= entities[j].start
                       \/ entities[j].end <= entities[i].start)

\* C15: for any text and any list of valid, non-overlapping entities, the text
\* redact_text returns under the TOKEN strategy contains no original entity
\* value as a substring.
C15_NoValueInTokenOutput ==
    (/\ args # <<>>
     /\ args.fn = "redact_text"
     /\ args.strategy = "token"
     /\ ValidNonOverlapping(args.entities)) =>
        \A i \in 1..Len(args.entities) : ~Contains(out[1].text, args.entities[i].value)

\* the text from offset p on in which every merged span is replaced by its
\* placeholder, built from left to right over the original text
RECURSIVE ReplacedFrom(_, _, _, _)
ReplacedFrom(text, merged, strategy, p) ==
    IF p >= Len(text) THEN <<>>
    ELSE IF \E i \in 1..Len(merged) : merged[i].start = p
    THEN LET m == merged[CHOOSE i \in 1..Len(merged) : merged[i].start = p]
         IN  GenerateRedactedValue(m.value, m.type, strategy)
                 \o ReplacedFrom(text, merged, strategy, m.end)
    ELSE <<text[p + 1]>> \o ReplacedFrom(text, merged, strategy, p + 1)

-----------------------------------------------------------------------------
(* app/compliance/risk_scoring.py *)

\* scores are floats: the model counts them in tenths of a point
Tenths == 10

\* the scores handed to _score_to_level, in tenths: 0.0 to 100.0 and beyond
MaxScore == 1010

CriticalFrom == 85
HighFrom == 60
MediumFrom == 30

\* _score_to_level with the comparisons strict
ScoreToLevelStrict(score) ==
    IF score > CriticalFrom * Tenths THEN "critical"
    ELSE IF score > HighFrom * Tenths THEN "high"
    ELSE IF score > MediumFrom * Tenths THEN "medium"
    ELSE "low"

\* RiskScorer._score_to_level(score)
ScoreToLevel(score) ==
    IF score >= CriticalFrom * Tenths THEN "critical"
    ELSE IF score >= HighFrom * Tenths THEN "high"
    ELSE IF score >= MediumFrom * Tenths THEN "medium"
    ELSE "low"

ScoreToLevelCall ==
    /\ args = <<>>
    /\ \E score \in 0..MaxScore :
          /\ args' = [fn |-> "score_to_level", score |-> score]
          /\ out' = <<ScoreToLevel(score)>>
    /\ UNCHANGED <<ledgerVars, writerVars, pipelineVars, sideVars>>

\* C16: _score_to_level is a step function of the score alone: below 30 LOW,
\* from 30 and below 60 MEDIUM, from 60 and below 85 HIGH, from 85 CRITICAL;
\* the boundary values 30, 60 and 85 give MEDIUM, HIGH and CRITICAL.
C16_ScoreBands ==
    (args # <<>> /\ args.fn = "score_to_level") =>
        /\ (args.score < 300) => out[1] = "low"
        /\ (300 <= args.score /\ args.score < 600) => out[1] = "medium"
        /\ (600 <= args.score /\ args.score < 850) => out[1] = "high"
        /\ (850 <= args.score) => out[1] = "critical"

\* the boundary value 60.0 gives HIGH
C16_Witness ==
    /\ args # <<>>
    /\ args.fn = "score_to_level"
    /\ args.score = 600
    /\ out[1] = "high"

-----------------------------------------------------------------------------
(* The specification of the single calls *)

CallsInit ==
    /\ LedgerOff
    /\ WritersIdle
    /\ PipelineIdle
    /\ AuxIdle

CallsNext ==
    \/ CheckRuleCall
    \/ LoadRulesFromFileCall
    \/ MergeEntitiesCall
    \/ RedactTextCall
    \/ ScoreToLevelCall
    \/ Return

SpecCalls == CallsInit /\ [][CallsNext]_vars

-----------------------------------------------------------------------------
(* app/rate_limiting.py: RateLimiter in in-process fallback mode *)

MaxRequests == 3
MaxRateLimit == 2

\* RateLimiter(requests_per_minute=100), app/main.py
RequestsPerMinute == 100

Requests == 1..MaxRequests

\* the key of the one API key of the model
LimiterKey == "rate_limit:1"

\* the minute of the window the requests fall in, and the one before it
ThisMinute == "202601010001"
LastMinute == "202601010000"

\* _fallback_lock is free, and the test of it that is always passed
LockFreeAlways == TRUE
LockFree == fallbackLock = "none"

\* _fallback_counters.get(key, (None, 0))
CounterOf(counters) ==
    IF LimiterKey \in DOMAIN counters THEN counters[LimiterKey]
    ELSE [minute |-> "None", count |-> 0]

\* the counters are empty (a fresh process) or hold the count of the last window
LimiterInit ==
    /\ LedgerOff
    /\ WritersIdle
    /\ PipelineIdle
    /\ CallsIdle
    /\ hook = [pc |-> "idle"]
    /\ reload = [pc |-> "idle"]
    /\ rateLimit \in 1..MaxRateLimit
    /\ fallbackCounters \in
          {<<>>, (LimiterKey :> [minute |-> LastMinute, count |-> rateLimit])}
    /\ fallbackLock = "none"
    /\ redisStore = <<>>
    /\ limiter = [r \in Requests |-> [pc |-> "new"]]

\* __call__, lines 29-37: the limit of the key, Redis is absent, the minute is read
LimiterEnter(r) ==
    /\ limiter[r].pc = "new"
    /\ limiter' = [limiter EXCEPT ![r] =
                      [pc |-> "entered",
                       rate_limit |-> IF rateLimit # 0 THEN rateLimit ELSE RequestsPerMinute,
                       minute |-> ThisMinute]]
    /\ UNCHANGED <<ledgerVars, writerVars, pipelineVars, callVars, fallbackCounters,
                   fallbackLock, rateLimit, redisStore, hook, reload>>

\* lines 38-39: the lock is taken and the counter of the key read
LimiterAcquire(r) ==
    /\ limiter[r].pc = "entered"
    /\ LockFree
    /\ fallbackLock' = ToString(r)
    /\ limiter' = [limiter EXCEPT ![r] =
                      [pc |-> "locked", rate_limit |-> limiter[r].rate_limit,
                       minute |-> limiter[r].minute,
                       mk |-> CounterOf(fallbackCounters).minute,
                       cnt |-> CounterOf(fallbackCounters).count]]
    /\ UNCHANGED <<ledgerVars, writerVars, pipelineVars, callVars, fallbackCounters,
                   rateLimit, redisStore, hook, reload>>

\* lines 40-49: a new window is opened, or the request rejected with 429, or
\* counted; the lock is released on the way out
LimiterDecide(r) ==
    /\ limiter[r].pc = "locked"
    /\ LET l == limiter[r]
       IN  IF l.mk # l.minute
           THEN /\ fallbackCounters' =
                      (LimiterKey :> [minute |-> l.minute, count |-> 1])
                /\ limiter' = [limiter EXCEPT ![r] = [pc |-> "admitted"]]
           ELSE IF l.cnt >= l.rate_limit
           THEN /\ fallbackCounters' = fallbackCounters
                /\ limiter' = [limiter EXCEPT ![r] = [pc |-> "rejected"]]
           ELSE /\ fallbackCounters' =
                      (LimiterKey :> [minute |-> l.mk, count |-> l.cnt + 1])
                /\ limiter' = [limiter EXCEPT ![r] = [pc |-> "admitted"]]
    /\ fallbackLock' = "none"
    /\ UNCHANGED <<ledgerVars, writerVars, pipelineVars, callVars, rateLimit, redisStore,
                   hook, reload>>

LimiterNext ==
    \E r \in Requests :
        \/ LimiterEnter(r)
        \/ LimiterAcquire(r)
        \/ LimiterDecide(r)

SpecLimiter == LimiterInit /\ [][LimiterNext]_vars

Admitted == {r \in Requests : limiter[r].pc = "admitted"}
Rejected == {r \in Requests : limiter[r].pc = "rejected"}

\* C17: in fallback mode, for a key with rate limit N, of the requests of one
\* minute window that have been answered, in whatever order the threads ran,
\* exactly min(N, their number) were admitted and the others rejected with
\* 429; the counter of the window is the number admitted (none counted twice).
C17_ExactlyNAdmitted ==
    LET answered == Cardinality(Admitted) + Cardinality(Rejected)
    IN  /\ Cardinality(Admitted) = Min(rateLimit, answered)
        /\ Admitted # {} =>
              /\ CounterOf(fallbackCounters).minute = ThisMinute
              /\ CounterOf(fallbackCounters).count = Cardinality(Admitted)

\* more requests than the limit, all answered, over the counter of the last
\* window
C17_Witness ==
    /\ rateLimit = 2
    /\ Cardinality(Admitted) = 2
    /\ Cardinality(Rejected) = MaxRequests - 2
    /\ Rejected # {}
    /\ fallbackLock = "none"

-----------------------------------------------------------------------------
(* app/webhooks.py: WebhookNotifier.send_webhook *)

MaxRetries == 3

\* what one _post_webhook call comes back with: a response with a status
\* code, or one of the exceptions send_webhook tells apart
StatusCodes == {200, 201, 202, 204, 302, 400, 404, 500, 503}
Exceptions == {"TimeoutException", "RequestError", "Exception"}
Responses ==
    [kind : {"response"}, status_code : StatusCodes]
      \cup [kind : Exceptions, status_code : {0}]

\* response.status_code in (200, 201, 202, 204)
Delivered(response) ==
    /\ response.kind = "response"
    /\ response.status_code \in {200, 201, 202, 204}

\* the three tests that lead to _wait_with_backoff and continue, and the
\* variant that retries after every response that is not a delivery
ShouldRetryAny(response, attempt, max_retries) ==
    /\ attempt < max_retries
    /\ response.kind \in {"response", "TimeoutException", "RequestError"}
ShouldRetry(response, attempt, max_retries) ==
    \/ /\ response.kind = "response"
       /\ attempt < max_retries
       /\ response.status_code >= 500
    \/ /\ response.kind \in {"TimeoutException", "RequestError"}
       /\ attempt < max_retries

HookDone(h, ok, error, attempt) ==
    [pc |-> "done", max_retries |-> h.max_retries, valid |-> h.valid,
     log |-> h.log, ok |-> ok, error |-> error, attempt |-> attempt]

HookInit ==
    /\ LedgerOff
    /\ WritersIdle
    /\ PipelineIdle
    /\ CallsIdle
    /\ LimiterIdle
    /\ reload = [pc |-> "idle"]
    /\ hook = [pc |-> "idle"]

\* send_webhook up to the first POST: the checks of the URL, of the payload,
\* of the allowlist and of the rate limit of the destination, each of which
\* returns with attempt 0, and the entry of the loop
SendWebhook ==
    /\ hook.pc = "idle"
    /\ \E max_retries \in 0..MaxRetries, url_ok \in BOOLEAN, payload_ok \in BOOLEAN,
          allowed \in {"yes", "no", "raises"}, limited \in {"yes", "no", "raises"} :
          LET h == [max_retries |-> max_retries, valid |-> url_ok /\ payload_ok,
                    log |-> <<>>]
          IN  hook' =
                IF ~url_ok THEN HookDone(h, FALSE, "Invalid URL", 0)
                ELSE IF ~payload_ok THEN HookDone(h, FALSE, "Invalid payload", 0)
                ELSE IF allowed = "no" THEN HookDone(h, FALSE, "Not allowed", 0)
                ELSE IF allowed = "raises"
                  THEN HookDone(h, FALSE, "Allowlist check error", 0)
                ELSE IF limited = "yes" THEN HookDone(h, FALSE, "Rate limit exceeded", 0)
                ELSE IF max_retries < 1
                  THEN HookDone(h, FALSE, "Max retries exceeded", max_retries)
                ELSE [pc |-> "posting", max_retries |-> max_retries,
                      valid |-> TRUE, log |-> <<>>, attempt |-> 1]
    /\ UNCHANGED <<ledgerVars, writerVars, pipelineVars, callVars, limiterVars, reload>>

\* one turn of the loop: the POST and what its outcome leads to
PostWebhook ==
    /\ hook.pc = "posting"
    /\ \E response \in Responses :
          LET h == [hook EXCEPT !.log = Append(hook.log, response)]
          IN  hook' =
                IF Delivered(response) THEN HookDone(h, TRUE, "None", hook.attempt)
                ELSE IF ShouldRetry(response, hook.attempt, hook.max_retries)
                  THEN [h EXCEPT !.attempt = hook.attempt + 1]
                ELSE HookDone(h, FALSE, response.kind, hook.attempt)
    /\ UNCHANGED <<ledgerVars, writerVars, pipelineVars, callVars, limiterVars, reload>>

\* the caller has the result; the notifier is ready for the next webhook
WebhookReturn ==
    /\ hook.pc = "done"
    /\ hook' = [pc |-> "idle"]
    /\ UNCHANGED <<ledgerVars, writerVars, pipelineVars, callVars, limiterVars, reload>>

HookNext == SendWebhook \/ PostWebhook \/ WebhookReturn

SpecHook == HookInit /\ [][HookNext]_vars

\* every POST returns or raises within the timeout of the client, and the
\* wait before a retry is a finite sleep
SpecHookLive == SpecHook /\ WF_vars(PostWebhook)

\* a response after which the claim lets send_webhook try again
RetryCause(response) ==
    \/ response.kind = "response" /\ response.status_code >= 500
    \/ response.kind \in {"TimeoutException", "RequestError"}

\* the POSTs made so far, and all of them but the last
Posts == Len(hook.log)
Earlier == 1..(Len(hook.log) - 1)

HookSafe ==
    hook.pc # "idle" =>
      /\ Posts <= hook.max_retries
      /\ hook.pc = "posting" =>
            /\ hook.attempt = Posts + 1
            /\ Posts < hook.max_retries
            /\ \A i \in 1..Posts : RetryCause(hook.log[i])
      /\ hook.pc = "done" =>
            /\ \A i \in Earlier : RetryCause(hook.log[i])
            /\ ~hook.valid => ~hook.ok /\ hook.attempt = 0 /\ Posts = 0
            /\ hook.ok <=> (Posts > 0 /\ Delivered(hook.log[Posts]))
            /\ Posts > 0 =>
                  /\ hook.attempt = Posts
                  /\ RetryCause(hook.log[Posts]) => Posts = hook.max_retries

\* C18: send_webhook always terminates, after at most max_retries POSTs. It
\* stops at the first 200/201/202/204 and returns success with the number of
\* that attempt; a POST is followed by another one only after a 5xx response,
\* a timeout or a request error, and only while attempts remain; any other
\* outcome (400, say) returns failure with the number of that attempt; an
\* invalid URL or payload returns failure with attempt 0 and no POST.
C18_WebhookTerminates ==
    /\ []HookSafe
    /\ (hook.pc = "posting") ~> (hook.pc = "done")

\* delivered at the third attempt, after a 5xx response and a timeout
C18_Witness ==
    /\ hook.pc = "done"
    /\ hook.ok
    /\ hook.attempt = 3
    /\ hook.log[1] = [kind |-> "response", status_code |-> 500]
    /\ hook.log[2] = [kind |-> "TimeoutException", status_code |-> 0]

-----------------------------------------------------------------------------
(* app/compliance/engine.py: load_rules on the global engine while other
   threads call check_compliance on it *)

\* the rules of the reloaded lists
ReloadRules == {HipaaSsn, GdprEmail, GdprKeyword}

ReloadLists == UNION {[1..k -> ReloadRules] : k \in 0..MaxRules}

\* the arguments of the checks made during a reload
ReloadTexts == Texts(1)

ReloadEntities(text) ==
    {<<>>,
     <<Entity("SSN", text, 0, Len(text))>>,
     <<Entity("EMAIL", text, 0, Len(text)), Entity("SSN", text, 0, Len(text))>>}

ReloadFrameworkArgs == {<<>>, AnalyzeFrameworks}

\* get_compliance_engine(): the one engine of the process, holding the rules
\* of an earlier load
ReloadInit ==
    /\ LedgerOff
    /\ WritersIdle
    /\ CallsIdle
    /\ LimiterIdle
    /\ hook = [pc |-> "idle"]
    /\ reload = [pc |-> "idle"]
    /\ lastLoad \in ReloadLists
    /\ engineRules = LoadRulesFrom(lastLoad, Len(lastLoad))
    /\ engineFrameworks = FrameworksOf(lastLoad, Len(lastLoad))
    /\ result = <<>>
    /\ req = IdleReq
    /\ cache = <<>>

\* load_rules, lines 28-29: the rules of the live engine are cleared
ReloadClear ==
    /\ reload.pc = "idle"
    /\ result = <<>>
    /\ \E list \in ReloadLists :
          reload' = [pc |-> "loading", rules |-> list, n |-> 1,
                     held_rules |-> engineRules,
                     held_frameworks |-> engineFrameworks]
    /\ engineRules' = <<>>
    /\ engineFrameworks' = <<>>
    /\ UNCHANGED <<ledgerVars, writerVars, callVars, limiterVars, hook, lastLoad,
                   result, req, cache>>

\* lines 31-40: one turn of the loop puts one rule into self.rules
ReloadAdd ==
    /\ reload.pc = "loading"
    /\ result = <<>>
    /\ reload.n <= Len(reload.rules)
    /\ engineRules' = AddRule(engineRules, reload.rules[reload.n])
    /\ reload' = [reload EXCEPT !.n = reload.n + 1]
    /\ UNCHANGED <<ledgerVars, writerVars, callVars, limiterVars, hook, lastLoad,
                   engineFrameworks, result, req, cache>>

\* line 42: self.frameworks = list(self.rules.keys()), and load_rules returns
ReloadFinish ==
    /\ reload.pc = "loading"
    /\ result = <<>>
    /\ reload.n > Len(reload.rules)
    /\ engineFrameworks' = FrameworksOf(reload.rules, Len(reload.rules))
    /\ lastLoad' = reload.rules
    /\ reload' = [pc |-> "idle"]
    /\ UNCHANGED <<ledgerVars, writerVars, callVars, limiterVars, hook, engineRules,
                   result, req, cache>>

\* check_compliance as the engine is at the time of the call
EngineCheck(rules, frameworks, a) ==
    CheckCompliance(rules, a.text, a.entities,
                    IF a.frameworks = <<>> THEN frameworks ELSE a.frameworks)

\* check_compliance on another thread, taken as one step on the engine as it
\* is; its caller has the result before the engine moves on
ReloadCheck ==
    /\ result = <<>>
    /\ \E text \in ReloadTexts, frameworks \in ReloadFrameworkArgs :
          \E entities \in ReloadEntities(text) :
              LET a == [fn |-> "check_compliance", text |-> text,
                        entities |-> entities, frameworks |-> frameworks]
              IN  /\ args' = a
                  /\ result' = <<EngineCheck(engineRules, engineFrameworks, a)>>
    /\ UNCHANGED <<out, sideVars, ledgerVars, writerVars, engineRules, engineFrameworks,
                   lastLoad, req, cache>>

ReloadNext ==
    \/ ReloadClear
    \/ ReloadAdd
    \/ ReloadFinish
    \/ ReloadCheck
    \/ CheckComplianceReturn

SpecReload == ReloadInit /\ [][ReloadNext]_vars

\* the complete rule set held before the reload in progress, and the one held
\* after it
HeldBefore ==
    IF reload.pc = "loading"
    THEN [rules |-> reload.held_rules, frameworks |-> reload.held_frameworks]
    ELSE [rules |-> engineRules, frameworks |-> engineFrameworks]

HeldAfter ==
    IF reload.pc = "loading"
    THEN [rules |-> LoadRulesFrom(reload.rules, Len(reload.rules)),
          frameworks |-> FrameworksOf(reload.rules, Len(reload.rules))]
    ELSE [rules |-> engineRules, frameworks |-> engineFrameworks]

\* C19: a reload never exposes a half-loaded rule set: whatever the
\* interleaving of a load_rules call with check_compliance calls on the shared
\* engine, the result of each check is the one the complete rule set held
\* before the reload gives, or the one the complete set held after it gives.
C19_NoHalfLoadedSet ==
    result # <<>> =>
        \/ result[1] = EngineCheck(HeldBefore.rules, HeldBefore.frameworks, args)
        \/ result[1] = EngineCheck(HeldAfter.rules, HeldAfter.frameworks, args)

-----------------------------------------------------------------------------
(* app/compliance/redaction.py: redact_by_pattern and RedactionPipeline *)

MaxPatterns == 2

\* the regexes of the calls: literals, and one that does not compile
PatternChoices ==
    {Literal(<<"a">>), Literal(<<"b">>), Literal(<<"a", "b">>), BadPattern}

\* the patterns argument: a dict, that is named patterns in insertion order
\* with no name twice
PatternDicts ==
    {d \in UNION {[1..k -> [name : {"EMAIL", "SSN"}, pattern : PatternChoices]] :
                     k \in 0..MaxPatterns} :
        \A i, j \in 1..Len(d) : i # j => d[i].name # d[j].name}

\* redact_by_pattern, lines 174-192: the matches of one pattern from the last
\* to the first, matches[i] being the next, spliced into redacted_text
RECURSIVE PatternLoop(_, _, _, _, _, _)
PatternLoop(matches, i, original_text, pattern_name, acc, strategy) ==
    IF i < 1 THEN acc
    ELSE LET original == Slice(original_text, matches[i].start, matches[i].end)
             redacted == GenerateRedactedValue(original, pattern_name, strategy)
         IN  PatternLoop(matches, i - 1, original_text, pattern_name,
                 [text |-> Slice(acc.text, 0, matches[i].start) \o redacted
                              \o Slice(acc.text, matches[i].end, Len(acc.text)),
                  records |-> Append(acc.records,
                                     [original |-> original, redacted |-> redacted,
                                      type |-> pattern_name, strategy |-> strategy,
                                      start |-> matches[i].start,
                                      end |-> matches[i].end])],
                 strategy)

\* lines 170-194: the patterns[1..n] applied in order, each matched against
\* the text given to the call; a pattern that does not compile is skipped
RECURSIVE RedactByPatternFrom(_, _, _, _)
RedactByPatternFrom(text, patterns, n, strategy) ==
    IF n = 0 THEN [text |-> text, records |-> <<>>]
    ELSE LET acc == RedactByPatternFrom(text, patterns, n - 1, strategy)
             pattern == patterns[n].pattern
         IN  IF ~pattern.valid THEN acc
             ELSE LET matches == FindIter(text, pattern.lit, 0)
                  IN  PatternLoop(matches, Len(matches), text, patterns[n].name,
                                  acc, strategy)

\* redact_by_pattern(text, patterns, strategy)
RedactByPattern(text, patterns, strategy) ==
    RedactByPatternFrom(text, patterns, Len(patterns), strategy)

\* RedactionService.redact_by_pattern(text, patterns, strategy)
RedactByPatternCall ==
    /\ args = <<>>
    /\ \E text \in Texts(MaxTextLen), patterns \in PatternDicts,
          strategy \in RedactionStrategies :
              /\ args' = [fn |-> "redact_by_pattern", text |-> text,
                          patterns |-> patterns, strategy |-> strategy]
              /\ out' = <<RedactByPattern(text, patterns, strategy)>>
    /\ UNCHANGED <<ledgerVars, writerVars, pipelineVars, sideVars>>

\* the text from offset p on with the span of every record replaced by the
\* placeholder of the record
RECURSIVE RecordsReplacedFrom(_, _, _)
RecordsReplacedFrom(text, records, p) ==
    IF p >= Len(text) THEN <<>>
    ELSE IF \E i \in 1..Len(records) : records[i].start = p
    THEN LET r == records[CHOOSE i \in 1..Len(records) : records[i].start = p]
         IN  r.redacted \o RecordsReplacedFrom(text, records, r.end)
    ELSE <<text[p + 1]>> \o RecordsReplacedFrom(text, records, p + 1)

\* no two records have a character of the text in common
RecordsApart(records) ==
    \A i, j \in 1..Len(records) :
        i # j => (records[i].end <= records[j].start \/ records[j].end <= records[i].start)

\* C21: for redact_by_pattern with any number of named patterns, the result
\* is the original text with every recorded match span replaced by its
\* placeholder and every other character kept, also when the placeholders of
\* an earlier pattern are longer or shorter than what they replace (stated
\* for the calls whose recorded spans have no character in common).
C21_PatternSpansReplaced ==
    (args # <<>> /\ args.fn = "redact_by_pattern" /\ RecordsApart(out[1].records)) =>
        out[1].text = RecordsReplacedFrom(args.text, out[1].records, 0)

MaxSteps == 2

\* the steps add_entity_redaction and add_pattern_redaction put into
\* self.operations
PipelineSteps ==
    [kind : {"entity"}, patterns : {<<>>}, strategy : {"token", "partial"}]
      \cup [kind : {"pattern"},
            patterns : {d \in PatternDicts : Len(d) = 1 /\ d[1].name = "SSN"},
            strategy : {"token"}]

PipelineOperations == UNION {[1..k -> PipelineSteps] : k \in 0..MaxSteps}

\* the entities handed to execute: none, or one whose value is the text at
\* its span
PipelineEntities(text) ==
    {<<>>} \cup {<<e>> : e \in {x \in EntitiesOver(text) :
                                   /\ x.start >= 0
                                   /\ x.end > x.start
                                   /\ x.value = Slice(text, x.start, x.end)}}

\* execute, lines 305-325: the operations[1..n] applied in order, each to the
\* text the one before it returned, the entity steps with the entities as
\* given to execute
RECURSIVE ExecuteFrom(_, _, _, _)
ExecuteFrom(text, entities, operations, n) ==
    IF n = 0 THEN [text |-> text, all_records |-> <<>>]
    ELSE LET acc == ExecuteFrom(text, entities, operations, n - 1)
             operation == operations[n]
             step == IF operation.kind = "entity"
                     THEN RedactText(acc.text, entities, operation.strategy)
                     ELSE RedactByPattern(acc.text, operation.patterns,
                                          operation.strategy)
         IN  [text |-> step.text, all_records |-> Append(acc.all_records, step.records)]

\* RedactionPipeline.execute(text, entities)
Execute(text, entities, operations) ==
    ExecuteFrom(text, entities, operations, Len(operations))

\* a pipeline is built and executed
ExecuteCall ==
    /\ args = <<>>
    /\ \E text \in Texts(MaxTextLen), operations \in PipelineOperations :
          \E entities \in PipelineEntities(text) :
              /\ args' = [fn |-> "execute", text |-> text, entities |-> entities,
                          operations |-> operations]
              /\ out' = <<Execute(text, entities, operations)>>
    /\ UNCHANGED <<ledgerVars, writerVars, pipelineVars, sideVars>>

\* C30: in RedactionPipeline.execute, for entities whose value is the
\* original text at their span, an entity step replaces exactly the
\* characters of the entities and nothing else, also when an earlier step has
\* changed the length of the text, and the result holds one record list per
\* step in step order (stated for a pattern step followed by an entity step
\* whose recorded spans have no character in common: the result is the
\* original text with the spans of both steps replaced).
C30_EntityStepAfterPatternStep ==
    (args # <<>> /\ args.fn = "execute") =>
        /\ Len(out[1].all_records) = Len(args.operations)
        /\ ( /\ Len(args.operations) = 2
             /\ args.operations[1].kind = "pattern"
             /\ args.operations[2].kind = "entity"
             /\ RecordsApart(out[1].all_records[1] \o out[1].all_records[2]) )
           => out[1].text =
                 RecordsReplacedFrom(args.text,
                     out[1].all_records[1] \o out[1].all_records[2], 0)

RedactionNext ==
    \/ RedactByPatternCall
    \/ ExecuteCall
    \/ Return

SpecRedaction == CallsInit /\ [][RedactionNext]_vars

-----------------------------------------------------------------------------
(* app/compliance/engine.py: check_compliance over rules with patterns that
   do not compile *)

\* a pattern on which re.finditer raises OverflowError ("the repetition
\* number is too large"), which is not an re.error
TooManyRepeats == [valid |-> FALSE, lit |-> <<"a{4294967296}">>]

\* what re.finditer(pattern, text, re.IGNORECASE) raises
CompileRaises(pattern) ==
    IF pattern.valid THEN "None"
    ELSE IF pattern = TooManyRepeats THEN "OverflowError"
    ELSE "re.error"

\* a rule with a keyword, a pattern that compiles and one that overflows
OverflowRule ==
    Rule("pci_009", "PCI-DSS", "Repeat Count", "low", "flag",
         <<>>, <<<<"a">>>>, <<Literal(<<"b">>), TooManyRepeats>>)

PatternRules == {MixedRule, PciPattern, HipaaSsn, OverflowRule}

PatternRuleLists == UNION {[1..k -> PatternRules] : k \in 0..MaxRules}

\* _check_rule, lines 130-150: the exception that leaves the loop over the
\* patterns, "None" when each is caught by `except re.error`
RuleRaises(rule) ==
    LET uncaught == {i \in 1..Len(rule.patterns) :
                        CompileRaises(rule.patterns[i]) \notin {"None", "re.error"}}
    IN  IF uncaught = {} THEN "None"
        ELSE CompileRaises(rule.patterns[CHOOSE i \in uncaught :
                                             \A j \in uncaught : i <= j])

\* check_compliance, lines 66-83: the result, or the exception of the first
\* rule evaluated that raises one
CheckComplianceOrRaise(rules, text, entities, frameworks) ==
    LET evaluated == UNION {{rules[f][i] : i \in 1..Len(rules[f])} :
                               f \in {frameworks[j] : j \in 1..Len(frameworks)}
                                         \cap DOMAIN rules}
        raising == {r \in evaluated : RuleRaises(r) # "None"}
    IN  IF raising = {}
        THEN [raised |-> "None",
              result |-> CheckCompliance(rules, text, entities, frameworks)]
        ELSE [raised |-> "OverflowError"]

\* an engine is loaded with rules and check_compliance called on it
CheckPatternsCall ==
    /\ args = <<>>
    /\ \E list \in PatternRuleLists, text \in Texts(MaxPromptLen),
          frameworks \in FrameworkArgs :
          \E entities \in EntityLists(text) :
              LET rules == LoadRulesFrom(list, Len(list))
              IN  /\ args' = [fn |-> "check_patterns", rules |-> rules, text |-> text,
                              entities |-> entities, frameworks |-> frameworks]
                  /\ out' = <<CheckComplianceOrRaise(rules, text, entities,
                                 IF frameworks = <<>> THEN FrameworksOf(list, Len(list))
                                 ELSE frameworks)>>
    /\ UNCHANGED <<ledgerVars, writerVars, pipelineVars, sideVars>>

PatternsNext ==
    \/ CheckPatternsCall
    \/ Return

SpecPatterns == CallsInit /\ [][PatternsNext]_vars

\* the rules of an engine with the patterns that do not compile taken out
WithoutInvalid(rules) ==
    [f \in DOMAIN rules |->
        [i \in 1..Len(rules[f]) |->
            [rules[f][i] EXCEPT !.patterns = SelectSeq(@, LAMBDA pattern : pattern.valid)]]]

\* C22: a pattern of a rule that is not a valid regex contributes no
\* violation and raises nothing out of check_compliance: the violations are
\* those the same rules give with the invalid patterns absent.
C22_InvalidPatternSkipped ==
    (args # <<>> /\ args.fn = "check_patterns") =>
        /\ out[1].raised = "None"
        /\ out[1].result.violations =
              AllViolations(WithoutInvalid(args.rules), args.text, args.entities,
                            out[1].result.frameworks_checked)

-----------------------------------------------------------------------------
(* app/compliance/risk_scoring.py: the component scores and the overall
   assessment *)

\* scores are floats: here they are counted in thousandths of a point, and
\* confidences in hundredths
Milli == 1000
Hundredths == 100

\* the cap min(100, ...) in thousandths
Cap == 100 * Milli

\* PII_WEIGHTS.get(entity_type, PII_WEIGHTS["UNKNOWN"])
PiiWeight(entity_type) ==
    CASE entity_type = "SSN" -> 95
      [] entity_type = "CREDIT_CARD" -> 90
      [] entity_type = "PERSON" -> 70
      [] entity_type = "EMAIL" -> 60
      [] entity_type = "PHONE_NUMBER" -> 55
      [] entity_type = "DATE" -> 30
      [] entity_type = "GPE" -> 20
      [] entity_type = "ORG" -> 15
      [] OTHER -> 50

\* FRAMEWORK_WEIGHTS.get(violation.framework, 1.0), in tenths
FrameworkWeight(framework) ==
    CASE framework = "HIPAA" -> 15
      [] framework = "PCI_DSS" -> 14
      [] framework = "GDPR" -> 13
      [] OTHER -> 10

\* SEVERITY_SCORES.get(violation.severity, 50)
SeverityScore(severity) ==
    CASE severity = "low" -> 20
      [] severity = "medium" -> 40
      [] severity = "high" -> 70
      [] severity = "critical" -> 95
      [] OTHER -> 50

RiskScore(component, value) ==
    [component |-> component, value |-> value,
     level |-> ScoreToLevel(value \div (Milli \div Tenths))]

\* score_pii_entity without the cap on the raised score
ScorePiiEntityUncapped(entity_type, confidence, context_sensitive) ==
    LET score == PiiWeight(entity_type) * confidence * (Milli \div Hundredths)
    IN  RiskScore("PII",
                  IF context_sensitive /\ confidence > 85
                  THEN (score * 11) \div 10
                  ELSE score)

\* score_pii_entity(entity_type, confidence, context_sensitive)
ScorePiiEntity(entity_type, confidence, context_sensitive) ==
    LET score == PiiWeight(entity_type) * confidence * (Milli \div Hundredths)
    IN  RiskScore("PII",
                  IF context_sensitive /\ confidence > 85
                  THEN Min(Cap, (score * 11) \div 10)
                  ELSE score)

\* lines 152-157, in tenths
LengthMultiplier(prompt_length) ==
    IF prompt_length > 500 THEN 12
    ELSE IF prompt_length > 1000 THEN 14
    ELSE 10

\* score_injection_threat(injection_confidence, prompt_length)
ScoreInjectionThreat(injection_confidence, prompt_length) ==
    LET base_score == injection_confidence * (Milli \div Hundredths) * 100
    IN  RiskScore("INJECTION",
                  Min(Cap, (base_score * LengthMultiplier(prompt_length)) \div 10))

\* score_compliance_violation(violation)
ScoreComplianceViolation(violation) ==
    RiskScore("COMPLIANCE",
              Min(Cap, (SeverityScore(violation.severity) * Milli
                            * FrameworkWeight(violation.framework)) \div 10))

\* the confidences of the calls, in hundredths, and the prompt lengths
Confidences == {0, 10, 11, 50, 85, 86, 100}
PromptLengths == {0, 100, 499, 500, 501, 1000, 1001, 1500}

ScoreInjectionThreatCall ==
    /\ args = <<>>
    /\ \E injection_confidence \in Confidences, prompt_length \in PromptLengths :
          /\ args' = [fn |-> "score_injection_threat",
                      injection_confidence |-> injection_confidence,
                      prompt_length |-> prompt_length]
          /\ out' = <<ScoreInjectionThreat(injection_confidence, prompt_length)>>
    /\ UNCHANGED <<ledgerVars, writerVars, pipelineVars, sideVars>>

\* C23: score_injection_threat gives min(100, confidence x 100 x m) with m
\* 1.0 for a prompt_length under 500, 1.2 from 500 to 1000 and 1.4 above 1000.
C23_LengthMultiplier ==
    (args # <<>> /\ args.fn = "score_injection_threat") =>
        LET m == IF args.prompt_length < 500 THEN 10
                 ELSE IF args.prompt_length <= 1000 THEN 12
                 ELSE 14
        IN  out[1].value = Min(Cap, args.injection_confidence * m * 100)

\* a violation the engine emits from a loaded rule is scored
ScoreComplianceViolationCall ==
    /\ args = <<>>
    /\ \E rule \in RuleUniverse, text \in Texts(MaxPromptLen) :
          \E entities \in EntityLists(text) :
              LET violations == CheckRule(text, entities, rule)
              IN  \E i \in 1..Len(violations) :
                      /\ args' = [fn |-> "score_compliance_violation",
                                  violation |-> violations[i]]
                      /\ out' = <<ScoreComplianceViolation(violations[i])>>
    /\ UNCHANGED <<ledgerVars, writerVars, pipelineVars, sideVars>>

\* C24: for a violation the engine emits from a loaded rule,
\* score_compliance_violation gives min(100, severity_base x weight) with
\* weight 1.5 for a HIPAA rule, 1.4 for a PCI-DSS rule, 1.3 for a GDPR rule
\* and 1.0 for any other, by the framework string stored on the rule.
C24_FrameworkWeights ==
    (args # <<>> /\ args.fn = "score_compliance_violation") =>
        LET framework == args.violation.framework
            weight == CASE framework = "HIPAA" -> 15
                        [] framework = "PCI-DSS" -> 14
                        [] framework = "GDPR" -> 13
                        [] OTHER -> 10
        IN  out[1].value =
               Min(Cap, SeverityScore(args.violation.severity) * weight * 100)

\* a number as a fraction
Frac(num, den) == [num |-> num, den |-> den]

\* sum(scores) / len(scores), 0.0 for none
RECURSIVE SumValues(_, _)
SumValues(risks, n) == IF n = 0 THEN 0 ELSE SumValues(risks, n - 1) + risks[n].value

Mean(risks) == IF risks = <<>> THEN Frac(0, 1) ELSE Frac(SumValues(risks, Len(risks)), Len(risks))

\* entity.get("confidence", 0.8)
DefaultConfidence == 80

\* assess_overall_risk(pii_entities, injection_score, compliance_violations);
\* None and the empty list are both <<>>
AssessOverallRisk(pii_entities, injection_score, compliance_violations) ==
    LET pii_risks == [i \in 1..Len(pii_entities) |->
                         ScorePiiEntity(pii_entities[i].type,
                                        IF pii_entities[i].has_confidence
                                        THEN pii_entities[i].confidence
                                        ELSE DefaultConfidence,
                                        TRUE)]
        pii_score == Mean(pii_risks)
        injection_risks == IF injection_score > 10
                           THEN <<ScoreInjectionThreat(injection_score, 100)>>
                           ELSE <<>>
        injection_score_normalized ==
            IF injection_risks # <<>> THEN injection_risks[1].value ELSE 0
        compliance_risks == [i \in 1..Len(compliance_violations) |->
                                ScoreComplianceViolation(compliance_violations[i])]
        compliance_score == Mean(compliance_risks)
        overall_score ==
            Frac(4 * pii_score.num * compliance_score.den
                   + 3 * injection_score_normalized * pii_score.den * compliance_score.den
                   + 3 * compliance_score.num * pii_score.den,
                 10 * pii_score.den * compliance_score.den)
    IN  [overall_score |-> overall_score,
         overall_level |-> ScoreToLevel((overall_score.num \div overall_score.den)
                                            \div (Milli \div Tenths)),
         pii_score |-> pii_score,
         injection_score |-> injection_score_normalized,
         compliance_score |-> compliance_score,
         individual_risks |-> pii_risks \o injection_risks \o compliance_risks,
         total_entities |-> Len(pii_entities)]

\* the entities of an assessment: a type and a confidence, or none given
AssessEntities ==
    [type : {"SSN", "OTHER"}, has_confidence : {TRUE}, confidence : {0, 86, 100}]
      \cup [type : {"SSN", "OTHER"}, has_confidence : {FALSE}, confidence : {0}]

AssessEntityLists == UNION {[1..k -> AssessEntities] : k \in 0..MaxEntities}

\* the violations of an assessment
AssessViolations ==
    {Violation(rule, <<>>, 0, 1, <<>>) : rule \in {HipaaSsn, GdprKeyword, PciPattern}}

AssessViolationLists == UNION {[1..k -> AssessViolations] : k \in 0..MaxRules}

AssessOverallRiskCall ==
    /\ args = <<>>
    /\ \E pii_entities \in AssessEntityLists, injection_score \in {0, 10, 11, 100},
          compliance_violations \in AssessViolationLists :
          /\ args' = [fn |-> "assess_overall_risk", pii_entities |-> pii_entities,
                      injection_score |-> injection_score,
                      compliance_violations |-> compliance_violations]
          /\ out' = <<AssessOverallRisk(pii_entities, injection_score,
                                        compliance_violations)>>
    /\ UNCHANGED <<ledgerVars, writerVars, pipelineVars, sideVars>>

ScoringNext ==
    \/ ScoreInjectionThreatCall
    \/ ScoreComplianceViolationCall
    \/ AssessOverallRiskCall
    \/ Return

SpecScoring == CallsInit /\ [][ScoringNext]_vars

\* a fraction lies in [0, 100]
InRange(f) == 0 <= f.num /\ f.num <= Cap * f.den

\* C25: for entity confidences and an injection confidence in [0,1], every
\* individual RiskScore value, the PII, injection and compliance sub-scores
\* and the overall score of assess_overall_risk lie in [0,100]; a component
\* that is absent contributes 0, and the overall score is
\* 0.4 x PII + 0.3 x injection + 0.3 x compliance.
C25_ScoresInRange ==
    (args # <<>> /\ args.fn = "assess_overall_risk") =>
        LET a == out[1]
        IN  /\ \A i \in 1..Len(a.individual_risks) :
                  InRange(Frac(a.individual_risks[i].value, 1))
            /\ InRange(a.pii_score)
            /\ InRange(Frac(a.injection_score, 1))
            /\ InRange(a.compliance_score)
            /\ InRange(a.overall_score)
            /\ args.pii_entities = <<>> => a.pii_score.num = 0
            /\ args.injection_score <= 10 => a.injection_score = 0
            /\ args.compliance_violations = <<>> => a.compliance_score.num = 0
            /\ a.overall_score.num * 10 * a.pii_score.den * a.compliance_score.den
                 = a.overall_score.den
                     * (4 * a.pii_score.num * a.compliance_score.den
                          + 3 * a.injection_score * a.pii_score.den * a.compliance_score.den
                          + 3 * a.compliance_score.num * a.pii_score.den)

\* all three components at their cap: an SSN at confidence 1.0 (raised by
\* 1.1 and capped), an injection confidence of 1.0 and a high HIPAA
\* violation (70 x 1.5, capped) give an overall score of 100
C25_Witness ==
    /\ args # <<>>
    /\ args.fn = "assess_overall_risk"
    /\ Len(args.pii_entities) = 1
    /\ args.pii_entities[1].type = "SSN"
    /\ args.pii_entities[1].has_confidence
    /\ args.pii_entities[1].confidence = 100
    /\ args.injection_score = 100
    /\ Len(args.compliance_violations) = 1
    /\ out[1].pii_score = Frac(Cap, 1)
    /\ out[1].injection_score = Cap
    /\ args.compliance_violations[1].framework = "HIPAA"
    /\ out[1].compliance_score = Frac(Cap, 1)
    /\ out[1].overall_score = Frac(10 * Cap, 10)

-----------------------------------------------------------------------------
(* Further properties of the ledger *)

\* C26: whenever an AuditLedger is constructed, appends or verifies with no
\* signing key configured, the hash-chain-only mode is made visible by an
\* emitted warning or log event; the ledger never runs unsigned silently.
C26_UnsignedModeLogged ==
    key = "" => emitted # <<>>

\* two persisted records share one prev_hash and one index
Forked(f) ==
    \E i, j \in 1..Len(f) :
        /\ i < j
        /\ f[i].prev_hash = f[j].prev_hash
        /\ f[i].index = f[j].index

\* C27: once two interleaved appends have read the same tail and both
\* written, so that two records share one prev_hash and index, verify()
\* returns false in that state and in every state reached by further
\* appends: the fork is never accepted and never heals.
C27_ForkNeverAccepted ==
    Forked(file) =>
        /\ ~Verify(file, key)
        /\ verified # "true"

\* a fork at the start of the file, a third record appended on top of it, and
\* verify() has returned false
C27_Witness ==
    /\ Len(file) = 3
    /\ file[1].prev_hash = file[2].prev_hash
    /\ file[1].index = file[2].index
    /\ file[3].prev_hash = file[2].hash
    /\ verified = "false"

\* C28: verify() is prefix-closed: on a file on which it returns true it
\* returns true on every prefix of the records as well, the empty file
\* included, so the removal of trailing records is not detected by verify(),
\* with or without a signing key.
C28_VerifyPrefixClosed ==
    /\ Verify(file, key) =>
          \A n \in 0..Len(file) : Verify(SubSeq(file, 1, n), key)
    /\ ( /\ tamper.kind = "delete"
         /\ tamper.pos = tamper.n
         /\ tamper.valid ) => verified # "false"

\* the last of several records was removed from a file verify() accepted, and
\* verify() has accepted what is left
C28_Witness ==
    /\ tamper.kind = "delete"
    /\ tamper.pos = tamper.n
    /\ tamper.n >= 2
    /\ tamper.valid
    /\ verified = "true"

-----------------------------------------------------------------------------
(* app/rate_limiting.py: RateLimiter with a reachable Redis client *)

\* the server starts the counter window of the key with no key stored
RedisInit ==
    /\ LedgerOff
    /\ WritersIdle
    /\ PipelineIdle
    /\ CallsIdle
    /\ hook = [pc |-> "idle"]
    /\ reload = [pc |-> "idle"]
    /\ rateLimit \in 1..MaxRateLimit
    /\ fallbackCounters = <<>>
    /\ fallbackLock = "none"
    /\ redisStore = <<>>
    /\ limiter = [r \in Requests |-> [pc |-> "new"]]

\* __call__, lines 29-30: the limit and the key of the request
RedisEnter(r) ==
    /\ limiter[r].pc = "new"
    /\ limiter' = [limiter EXCEPT ![r] =
                      [pc |-> "entered",
                       rate_limit |-> IF rateLimit # 0 THEN rateLimit ELSE RequestsPerMinute]]
    /\ UNCHANGED <<ledgerVars, writerVars, pipelineVars, callVars, fallbackCounters,
                   fallbackLock, rateLimit, redisStore, hook, reload>>

\* line 52: current_requests = redis_client.get(key), None when not stored
RedisGet(r) ==
    /\ limiter[r].pc = "entered"
    /\ limiter' = [limiter EXCEPT ![r] =
                      [pc |-> "got", rate_limit |-> limiter[r].rate_limit,
                       stored |-> LimiterKey \in DOMAIN redisStore,
                       current_requests |-> IF LimiterKey \in DOMAIN redisStore
                                            THEN redisStore[LimiterKey] ELSE 0]]
    /\ UNCHANGED <<ledgerVars, writerVars, pipelineVars, callVars, fallbackCounters,
                   fallbackLock, rateLimit, redisStore, hook, reload>>

\* lines 69-80: SET key 1 for a key not stored, 429 at the limit, INCR below it
RedisDecide(r) ==
    /\ limiter[r].pc = "got"
    /\ LET l == limiter[r]
       IN  IF ~l.stored
           THEN /\ redisStore' = (LimiterKey :> 1)
                /\ limiter' = [limiter EXCEPT ![r] = [pc |-> "admitted"]]
           ELSE IF l.current_requests >= l.rate_limit
           THEN /\ redisStore' = redisStore
                /\ limiter' = [limiter EXCEPT ![r] = [pc |-> "rejected"]]
           ELSE /\ redisStore' =
                      (LimiterKey :> (IF LimiterKey \in DOMAIN redisStore
                                      THEN redisStore[LimiterKey] ELSE 0) + 1)
                /\ limiter' = [limiter EXCEPT ![r] = [pc |-> "admitted"]]
    /\ UNCHANGED <<ledgerVars, writerVars, pipelineVars, callVars, fallbackCounters,
                   fallbackLock, rateLimit, hook, reload>>

RedisNext ==
    \E r \in Requests :
        \/ RedisEnter(r)
        \/ RedisGet(r)
        \/ RedisDecide(r)

SpecRedis == RedisInit /\ [][RedisNext]_vars

\* C29: with a reachable Redis client the limiter admits at most rate_limit
\* requests per API key within one counter window, whatever the interleaving
\* of the requests for the key.
C29_AtMostLimitAdmitted ==
    Cardinality(Admitted) <= rateLimit

=============================================================================
